---- MODULE Spec2Model ----
(***************************************************************************)
(* Model of the K8s task generation workflow (src/workflow): the graph     *)
(* built by build_workflow, its executors, the routing selectors and the   *)
(* CombinedValidationResult decision properties.                           *)
(*                                                                         *)
(* One run of the workflow is modelled.  Every executor is one action; an  *)
(* executor that raises ends the run in status "failed".  The external     *)
(* collaborators (generator and fixer agents, the validator's view of the  *)
(* file system, pytest) are nondeterministic inputs drawn from small sets. *)
(* Texts are TLA+ strings; the decorative emoji prefixes of log and output *)
(* texts are left out.                                                     *)
(***************************************************************************)
EXTENDS Integers, Sequences, FiniteSets, TLC

VARIABLES
    status,        \* "idle" (built, not started) | "running" | "failed" (an executor raised)
    error,         \* the exception that ended the run, "" if none
    active,        \* ids of the executors a message is pending for
    msg,           \* the message in flight
    shared,        \* the workflow's shared state: key -> value
    outputs,       \* the outputs yielded so far (ctx.yield_output)
    calls,         \* executor id -> number of invocations in this run
    game_root,     \* task ids that have a directory under PATHS.game_root
    unsuccessful,  \* PATHS.unsuccessful_game_root: directory name -> its content
    environ,       \* os.environ: the value of SKIP_ANSWER_TESTS, "<unset>" if absent
    initial_state, \* the message the run was started with
    test_result_txt, \* test_result.txt in the task directory: output of the last pytest run
    workflows,     \* runs executing concurrently in one process: run -> its state (<<>> for a single run)
    task_files,    \* what the task directories hold, where that is tracked: task id -> content (<<>> otherwise)
    generated_ideas \* TaskIdeasMemory.generated_ideas: key -> the idea stored under it

vars == <<status, error, active, msg, shared, outputs, calls, game_root,
          unsuccessful, environ, initial_state, test_result_txt, workflows,
          task_files, generated_ideas>>

----------------------------------------------------------------------------
(* Bounds of the model *)

\* largest max_retries a run is started with
MaxRetriesBound == 3

\* largest retry_count a run is started with
MaxInitRetry == 1

\* largest number of specific failure causes the validator reports
MaxCauses == 4

----------------------------------------------------------------------------
(* Program constants *)

\* src/agents/config.py:9
game_name == "game02"

\* src/workflow/executors.py:80 and :216 (fallback when shared state has none)
DefaultMaxRetries == 3

\* src/workflow/executors.py:75 and :211
DefaultRetryCount == 0

\* src/workflow/executors.py:122 (failure_reasons[:3])
ReasonCap == 3

----------------------------------------------------------------------------
(* Strings *)

\* Python's  sub in s
Contains(s, sub) ==
    \E i \in 1..(Len(s) - Len(sub) + 1) : SubSeq(s, i, i + Len(sub) - 1) = sub

LowerChar(c) ==
    CASE c = "A" -> "a" [] c = "B" -> "b" [] c = "C" -> "c" [] c = "D" -> "d"
      [] c = "E" -> "e" [] c = "F" -> "f" [] c = "G" -> "g" [] c = "H" -> "h"
      [] c = "I" -> "i" [] c = "J" -> "j" [] c = "K" -> "k" [] c = "L" -> "l"
      [] c = "M" -> "m" [] c = "N" -> "n" [] c = "O" -> "o" [] c = "P" -> "p"
      [] c = "Q" -> "q" [] c = "R" -> "r" [] c = "S" -> "s" [] c = "T" -> "t"
      [] c = "U" -> "u" [] c = "V" -> "v" [] c = "W" -> "w" [] c = "X" -> "x"
      [] c = "Y" -> "y" [] c = "Z" -> "z" [] OTHER -> c

RECURSIVE Lower(_)
\* Python's  s.lower()
Lower(s) ==
    IF Len(s) = 0 THEN ""
    ELSE LowerChar(SubSeq(s, 1, 1)) \o Lower(SubSeq(s, 2, Len(s)))

RECURSIVE Join(_, _)
\* Python's  sep.join(parts)
Join(sep, parts) ==
    IF Len(parts) = 0 THEN ""
    ELSE IF Len(parts) = 1 THEN parts[1]
    ELSE parts[1] \o sep \o Join(sep, Tail(parts))

RECURSIVE Replace(_, _, _)
\* Python's  s.replace(old, new)  for a one-character old
Replace(s, old, new) ==
    IF Len(s) = 0 THEN ""
    ELSE (IF SubSeq(s, 1, 1) = old THEN new ELSE SubSeq(s, 1, 1))
         \o Replace(SubSeq(s, 2, Len(s)), old, new)

\* Python's  str(bool)
BoolStr(b) == IF b THEN "True" ELSE "False"

----------------------------------------------------------------------------
(* Data model: src/workflow/models.py *)

ValidationResult(is_valid, reason, task_id, task_directory) ==
    [is_valid |-> is_valid, reason |-> reason, task_id |-> task_id,
     task_directory |-> task_directory]

TestResult(is_valid, reason, task_id, task_directory, raw_output) ==
    [is_valid |-> is_valid, reason |-> reason, task_id |-> task_id,
     task_directory |-> task_directory, raw_output |-> raw_output]

CombinedValidationResult(validation, test, retry_count, max_retries, target_topic, concept_description, difficulty, objective) ==
    [type |-> "CombinedValidationResult",
     validation |-> validation, test |-> test,
     retry_count |-> retry_count, max_retries |-> max_retries,
     target_topic |-> target_topic, concept_description |-> concept_description,
     difficulty |-> difficulty, objective |-> objective]

\* mutant: one passing verdict is enough
should_keep_Either(combined) ==
    combined.validation.is_valid \/ combined.test.is_valid

\* keep task only if both validation and tests pass
should_keep(combined) ==
    combined.validation.is_valid /\ combined.test.is_valid

\* mutant: one more retry once the budget is reached
should_retry_Inclusive(combined) ==
    ~should_keep(combined) /\ combined.retry_count <= combined.max_retries

\* retry if task failed and haven't exceeded max retries
should_retry(combined) ==
    ~should_keep(combined) /\ combined.retry_count < combined.max_retries

TaskInfo(task_id, task_directory) ==
    [type |-> "TaskInfo", task_id |-> task_id, task_directory |-> task_directory]

TaskWithValidation(task_id, task_directory, validation) ==
    [type |-> "TaskWithValidation", task_id |-> task_id,
     task_directory |-> task_directory, validation |-> validation]

InitialWorkflowState(prompt, target_topic, task_id, concept_description, difficulty, objective, retry_count, max_retries) ==
    [type |-> "InitialWorkflowState", prompt |-> prompt,
     target_topic |-> target_topic, task_id |-> task_id,
     concept_description |-> concept_description, difficulty |-> difficulty,
     objective |-> objective, retry_count |-> retry_count,
     max_retries |-> max_retries]

\* agent_framework messages to and from an AgentExecutor
AgentExecutorRequest(text) == [type |-> "AgentExecutorRequest", text |-> text]

AgentExecutorResponse(text) == [type |-> "AgentExecutorResponse", text |-> text]

----------------------------------------------------------------------------
(* Routing: src/workflow/selectors.py and src/workflow/builder.py *)

\* mutant: the failed task is kept and the passing one removed
select_action_Swapped(combined, target_ids) ==
    IF should_keep(combined) THEN <<target_ids[2]>> ELSE <<target_ids[1]>>

select_action(combined, target_ids) ==
    IF should_keep(combined) THEN <<target_ids[1]>> ELSE <<target_ids[2]>>

\* mutant: a passed negative verification also asks for the budget check
select_skip_answer_action_Both(combined, target_ids) ==
    IF should_keep(combined) THEN target_ids ELSE <<target_ids[1]>>

\* mutant: the two targets are taken in the order of select_action
select_skip_answer_action_Swapped(combined, target_ids) ==
    IF should_keep(combined) THEN <<target_ids[1]>> ELSE <<target_ids[2]>>

select_skip_answer_action(combined, target_ids) ==
    IF should_keep(combined) THEN <<target_ids[2]>> ELSE <<target_ids[1]>>

\* mutant: a retry also completes the workflow
select_loop_action_Both(combined, target_ids) ==
    IF should_retry(combined) THEN target_ids ELSE <<target_ids[2]>>

\* mutant: the run is completed while the budget lasts and repaired after it
select_loop_action_Swapped(combined, target_ids) ==
    IF should_retry(combined) THEN <<target_ids[2]>> ELSE <<target_ids[1]>>

select_loop_action(combined, target_ids) ==
    IF should_retry(combined) THEN <<target_ids[1]>> ELSE <<target_ids[2]>>

Range(seq) == {seq[i] : i \in DOMAIN seq}

ExecutorIds ==
    {"initialize_retry", "generator_agent", "parse_generated_task",
     "run_validation", "run_pytest", "make_decision", "keep_task",
     "remove_task", "run_pytest_skip_answer", "check_loop", "fix_task",
     "fixer_agent", "complete_workflow"}

\* mutant: a failed task is completed without the budget check
build_workflow_NoBudgetCheck(id, m) ==
    CASE id = "initialize_retry"      -> {"generator_agent"}
      [] id = "generator_agent"       -> {"parse_generated_task"}
      [] id = "parse_generated_task"  -> {"run_validation"}
      [] id = "run_validation"        -> {"run_pytest"}
      [] id = "run_pytest"            -> {"make_decision"}
      [] id = "make_decision"         ->
            Range(select_action(m, <<"keep_task", "remove_task">>))
      [] id = "keep_task"             -> {"run_pytest_skip_answer"}
      [] id = "remove_task"           -> {"complete_workflow"}
      [] id = "run_pytest_skip_answer" ->
            Range(select_skip_answer_action(m, <<"check_loop", "complete_workflow">>))
      [] id = "check_loop"            ->
            Range(select_loop_action(m, <<"fix_task", "complete_workflow">>))
      [] id = "fix_task"              -> {"fixer_agent"}
      [] id = "fixer_agent"           -> {"parse_generated_task"}
      [] OTHER                        -> {}

\* mutant: a kept task completes without the negative verification
build_workflow_NoSkipAnswer(id, m) ==
    CASE id = "initialize_retry"      -> {"generator_agent"}
      [] id = "generator_agent"       -> {"parse_generated_task"}
      [] id = "parse_generated_task"  -> {"run_validation"}
      [] id = "run_validation"        -> {"run_pytest"}
      [] id = "run_pytest"            -> {"make_decision"}
      [] id = "make_decision"         ->
            Range(select_action(m, <<"keep_task", "remove_task">>))
      [] id = "keep_task"             -> {"complete_workflow"}
      [] id = "remove_task"           -> {"check_loop"}
      [] id = "run_pytest_skip_answer" ->
            Range(select_skip_answer_action(m, <<"check_loop", "complete_workflow">>))
      [] id = "check_loop"            ->
            Range(select_loop_action(m, <<"fix_task", "complete_workflow">>))
      [] id = "fix_task"              -> {"fixer_agent"}
      [] id = "fixer_agent"           -> {"parse_generated_task"}
      [] OTHER                        -> {}

\* mutant: a repair starts over at the generator
build_workflow_Regenerate(id, m) ==
    CASE id = "initialize_retry"      -> {"generator_agent"}
      [] id = "generator_agent"       -> {"parse_generated_task"}
      [] id = "parse_generated_task"  -> {"run_validation"}
      [] id = "run_validation"        -> {"run_pytest"}
      [] id = "run_pytest"            -> {"make_decision"}
      [] id = "make_decision"         ->
            Range(select_action(m, <<"keep_task", "remove_task">>))
      [] id = "keep_task"             -> {"run_pytest_skip_answer"}
      [] id = "remove_task"           -> {"check_loop"}
      [] id = "run_pytest_skip_answer" ->
            Range(select_skip_answer_action(m, <<"check_loop", "complete_workflow">>))
      [] id = "check_loop"            ->
            Range(select_loop_action(m, <<"fix_task", "complete_workflow">>))
      [] id = "fix_task"              -> {"generator_agent"}
      [] id = "fixer_agent"           -> {"parse_generated_task"}
      [] OTHER                        -> {}

\* the executors a message m sent by executor id is delivered to
build_workflow(id, m) ==
    CASE id = "initialize_retry"      -> {"generator_agent"}
      [] id = "generator_agent"       -> {"parse_generated_task"}
      [] id = "parse_generated_task"  -> {"run_validation"}
      [] id = "run_validation"        -> {"run_pytest"}
      [] id = "run_pytest"            -> {"make_decision"}
      [] id = "make_decision"         ->
            Range(select_action(m, <<"keep_task", "remove_task">>))
      [] id = "keep_task"             -> {"run_pytest_skip_answer"}
      [] id = "remove_task"           -> {"check_loop"}
      [] id = "run_pytest_skip_answer" ->
            Range(select_skip_answer_action(m, <<"check_loop", "complete_workflow">>))
      [] id = "check_loop"            ->
            Range(select_loop_action(m, <<"fix_task", "complete_workflow">>))
      [] id = "fix_task"              -> {"fixer_agent"}
      [] id = "fixer_agent"           -> {"parse_generated_task"}
      [] OTHER                        -> {}

----------------------------------------------------------------------------
(* The workflow context: shared state, messages, outputs, exceptions *)

HasKey(s, key) == key \in DOMAIN s

\* ctx.set_shared_state(key, value) applied to the store s
set_shared_state(s, key, value) ==
    [k \in (DOMAIN s) \cup {key} |-> IF k = key THEN value ELSE s[k]]

\* the executor id has been invoked once more
Invoked(id) == calls' = [calls EXCEPT ![id] = @ + 1]

\* ctx.send_message(m) by executor id; a run with no message left is over
send_message(id, m) ==
    /\ msg' = m
    /\ active' = (active \ {id}) \cup build_workflow(id, m)
    /\ status' = IF (active \ {id}) \cup build_workflow(id, m) = {}
                 THEN "completed" ELSE "running"
    /\ error' = error

\* the executor id returns without sending a message
NoMessage(id) ==
    /\ msg' = msg
    /\ active' = active \ {id}
    /\ status' = IF active \ {id} = {} THEN "completed" ELSE "running"
    /\ error' = error

\* the executor id raises: the run stops with the exception
Raise(id, exception) ==
    /\ status' = "failed"
    /\ error' = exception
    /\ active' = {}
    /\ msg' = msg

Pending(id) == status = "running" /\ id \in active

----------------------------------------------------------------------------
(* Inputs of a run *)

\* the task id the caller pins, and another one an agent may use instead
TaskIds == {"001_alpha", "002_beta"}

StartTaskIds == {"001_alpha"}

\* target_topic and concept_description of the task idea; either may be empty
Metadata ==
    {<<"ConfigMaps", "Mount a ConfigMap">>, <<"", "Mount a ConfigMap">>,
     <<"ConfigMaps", "">>}

\* workflow.run_stream(initial_state) of the runner, or a plain text message
StartMessages ==
    {InitialWorkflowState("Generate a complete Kubernetes learning task with ID '"
                              \o id \o "' about '" \o meta[1] \o "'.",
                          meta[1], id, meta[2], "beginner",
                          "Create the resource", rc, mx) :
        id \in StartTaskIds, meta \in Metadata,
        rc \in 0..MaxInitRetry, mx \in 1..MaxRetriesBound}
    \cup {[type |-> "str", text |-> "Generate a task"]}

\* what a generator or fixer agent run does: its answer and the directory it
\* wrote under PATHS.game_root ("" when it wrote none)
AgentRuns ==
    {[text |-> "Created all files in game02/001_alpha/", creates |-> "001_alpha"],
     [text |-> "Created all files in tests/game02/002_beta/", creates |-> "002_beta"],
     [text |-> "I could not write the files", creates |-> ""]}

\* numbers of failed checks the validator finds in a directory of a run
CauseCounts == {0, MaxCauses}

\* the i-th specific failure cause the validator reports; a YAML error
\* quotes the line of the file it was found in
Cause(i) ==
    IF i = 2
    THEN "YAML invalid in answer.template.yaml: mapping values are not allowed here: note: pod successfully generated: yes"
    ELSE "Python syntax error in test_0" \o ToString(i) \o ".py"

\* pytest runs of a task directory: exit code and combined output
OutAllPassed == "test_03_answer.py . test_05_check.py . test_06_cleanup.py . 6 passed"

OutCheckFailed == "test_03_answer.py . test_05_check.py F test_06_cleanup.py . FAILED test_05_check.py 1 failed, 5 passed"

OutNoTests == "no tests ran"

OutNotFound == "ERROR: file or directory not found"

OutSkipExpected == "test_03_answer.py s test_05_check.py F test_06_cleanup.py . FAILED test_05_check.py 1 failed, 4 passed, 1 skipped"

OutSkipVacuous == "test_03_answer.py s test_05_check.py . test_06_cleanup.py . 5 passed, 1 skipped"

OutSkipOtherFailed == "test_03_answer.py s test_05_check.py . test_06_cleanup.py F FAILED test_06_cleanup.py 1 failed, 4 passed, 1 skipped"

OutNotSkipped == "test_03_answer.py . test_05_check.py F test_06_cleanup.py . FAILED test_05_check.py 1 failed, 5 passed"

\* subprocess.run results in normal mode for an existing task directory
NormalRuns ==
    {[returncode |-> 0, output |-> OutAllPassed],
     [returncode |-> 1, output |-> OutCheckFailed],
     [returncode |-> 5, output |-> OutNoTests]}

\* subprocess.run results with SKIP_ANSWER_TESTS=True
SkipRuns ==
    {[returncode |-> 1, output |-> OutSkipExpected],
     [returncode |-> 0, output |-> OutSkipVacuous],
     [returncode |-> 1, output |-> OutSkipOtherFailed],
     [returncode |-> 1, output |-> OutNotSkipped],
     [returncode |-> 5, output |-> OutNoTests]}

\* pytest on a directory that does not exist: usage error
MissingRun == [returncode |-> 4, output |-> OutNotFound]

\* time.strftime("%Y%m%d_%H%M%S") at the moment of quarantine
Timestamp == "20260101_120000"

----------------------------------------------------------------------------
(* Collaborators: validator, pytest runner, task id extraction *)

\* _result of src/agents/k8s_task_validator.py and src/agents/pytest_runner.py
Result(is_valid, reason, details) ==
    [is_valid |-> is_valid, reason |-> reason, details |-> details]

\* validate_task_directory on a task directory that exists or not and in
\* which k checks fail
validate_task_directory(task_dir, exists, k) ==
    IF ~exists
    THEN Result(FALSE, "Task directory not found: " \o task_dir, <<>>)
    ELSE LET results ==
                 <<Result(TRUE, "Directory listing", <<>>)>>
                 \o [i \in 1..k |-> Result(FALSE, Cause(i), <<>>)]
                 \o <<Result(TRUE, "Skipped non-validated file: test_result.txt", <<>>)>>
             overall_valid == \A i \in DOMAIN results : results[i].is_valid
         IN Result(overall_valid, "Validation completed", results)

\* mutant: a run that collected no tests has no failure and passes
run_pytest_command_NoneFailed(run) ==
    IF run.returncode = 0 \/ run.returncode = 5
    THEN Result(TRUE, "All tests passed", <<run.output>>)
    ELSE Result(FALSE, "Tests failed (exit code " \o ToString(run.returncode) \o ")",
                <<run.output>>)

\* run_pytest_command, from the exit code and output of the subprocess
run_pytest_command(run) ==
    IF run.returncode = 0
    THEN Result(TRUE, "All tests passed", <<run.output>>)
    ELSE IF run.returncode = 5
    THEN Result(FALSE, "No tests collected", <<run.output>>)
    ELSE Result(FALSE, "Tests failed (exit code " \o ToString(run.returncode) \o ")",
                <<run.output>>)

Digits == {"0", "1", "2", "3", "4", "5", "6", "7", "8", "9"}

IdChars ==
    Digits \cup {"_", "a", "b", "c", "d", "e", "f", "g", "h", "i", "j", "k", "l",
                 "m", "n", "o", "p", "q", "r", "s", "t", "u", "v", "w", "x", "y", "z"}

CharAt(s, i) == IF i >= 1 /\ i <= Len(s) THEN SubSeq(s, i, i) ELSE ""

RECURSIVE IdEnd(_, _)
\* the last position of the run of [a-z0-9_] characters that starts at j
IdEnd(s, j) ==
    IF CharAt(s, j + 1) \in IdChars THEN IdEnd(s, j + 1) ELSE j

\* the match of (\d{3}_[a-z0-9_]+) at position i of s, "" if there is none
MatchIdAt(s, i) ==
    IF /\ CharAt(s, i) \in Digits
       /\ CharAt(s, i + 1) \in Digits
       /\ CharAt(s, i + 2) \in Digits
       /\ CharAt(s, i + 3) = "_"
       /\ CharAt(s, i + 4) \in IdChars
    THEN SubSeq(s, i, IdEnd(s, i + 4))
    ELSE ""

\* re.search(prefix + r'(\d{3}_[a-z0-9_]+)', s): group 1 of the leftmost match
SearchId(prefix, s) ==
    LET hits == {i \in 1..(Len(s) - Len(prefix) + 1) :
                    /\ SubSeq(s, i, i + Len(prefix) - 1) = prefix
                    /\ MatchIdAt(s, i + Len(prefix)) # ""}
    IN IF hits = {} THEN ""
       ELSE MatchIdAt(s, (CHOOSE i \in hits : \A j \in hits : i <= j) + Len(prefix))

\* mutant: a text with no id in it gets a made-up one
ParseTaskId_MadeUp(text) ==
    IF SearchId(game_name \o "/", text) # ""
    THEN SearchId(game_name \o "/", text)
    ELSE IF SearchId("", text) # "" THEN SearchId("", text)
    ELSE "000_unknown"

\* the three patterns parse_generated_task tries, in order
ParseTaskId(text) ==
    IF SearchId(game_name \o "/", text) # ""
    THEN SearchId(game_name \o "/", text)
    ELSE IF SearchId("tests/" \o game_name \o "/", text) # ""
    THEN SearchId("tests/" \o game_name \o "/", text)
    ELSE SearchId("", text)

----------------------------------------------------------------------------
(* Executors: src/workflow/executors.py *)

Init ==
    /\ workflows = <<>>
    /\ generated_ideas = <<>>
    /\ task_files = <<>>
    /\ status = "idle"
    /\ error = ""
    /\ active = {}
    /\ msg = [type |-> "None"]
    /\ shared = [k \in {} |-> 0]
    /\ outputs = <<>>
    /\ calls = [id \in ExecutorIds |-> 0]
    /\ game_root = {}
    /\ unsuccessful \in
         {[n \in {} |-> 0],
          [n \in {"001_alpha"} |-> [holds |-> {"old"}, report |-> <<>>]],
          [n \in {"001_alpha", "001_alpha_" \o Timestamp} |->
                [holds |-> {"old"}, report |-> <<>>]]}
    /\ environ = "<unset>"
    /\ initial_state = [type |-> "None"]
    /\ test_result_txt = ""

\* workflow.run_stream(message): the message goes to the start executor
run_stream ==
    /\ status = "idle"
    /\ \E message \in StartMessages :
          /\ msg' = message
          /\ initial_state' = message
          /\ active' = {"initialize_retry"}
    /\ status' = "running"
    /\ UNCHANGED <<generated_ideas, task_files, workflows, error, shared, outputs, calls, game_root, unsuccessful, environ,
                   test_result_txt>>

initialize_retry ==
    /\ Pending("initialize_retry")
    /\ Invoked("initialize_retry")
    /\ IF msg.type = "InitialWorkflowState"
       THEN /\ shared' =
                 set_shared_state(
                 set_shared_state(
                 set_shared_state(
                 set_shared_state(
                 set_shared_state(
                 set_shared_state(
                 set_shared_state(shared,
                     "task_id", msg.task_id),
                     "target_topic", msg.target_topic),
                     "concept_description", msg.concept_description),
                     "difficulty", msg.difficulty),
                     "objective", msg.objective),
                     "retry_count", msg.retry_count),
                     "max_retries", msg.max_retries)
            /\ send_message("initialize_retry", AgentExecutorRequest(msg.prompt))
       ELSE IF ~HasKey(shared, "task_id") \/ ~HasKey(shared, "target_topic")
       THEN /\ Raise("initialize_retry", "KeyError")
            /\ shared' = shared
       ELSE /\ shared' = shared
            /\ send_message("initialize_retry",
                   IF msg.type = "str" THEN AgentExecutorRequest(msg.text) ELSE msg)
    /\ UNCHANGED <<generated_ideas, task_files, workflows, outputs, game_root, unsuccessful, environ, initial_state, test_result_txt>>

\* AgentExecutor(generator_agent): the agent answers and may write files
generator_agent ==
    /\ Pending("generator_agent")
    /\ Invoked("generator_agent")
    /\ \E run \in AgentRuns :
          /\ game_root' = IF run.creates = "" THEN game_root
                          ELSE game_root \cup {run.creates}
          /\ send_message("generator_agent", AgentExecutorResponse(run.text))
    /\ UNCHANGED <<generated_ideas, task_files, workflows, shared, outputs, unsuccessful, environ, initial_state, test_result_txt>>

\* AgentExecutor(fixer_agent): the agent answers and may write files
fixer_agent ==
    /\ Pending("fixer_agent")
    /\ Invoked("fixer_agent")
    /\ \E run \in AgentRuns :
          /\ game_root' = IF run.creates = "" THEN game_root
                          ELSE game_root \cup {run.creates}
          /\ send_message("fixer_agent", AgentExecutorResponse(run.text))
    /\ UNCHANGED <<generated_ideas, task_files, workflows, shared, outputs, unsuccessful, environ, initial_state, test_result_txt>>

\* mutant: the id the response text implies is preferred to the pinned one
PinnedTaskId_TextFirst(s, text) ==
    IF ParseTaskId(text) # "" THEN ParseTaskId(text)
    ELSE IF HasKey(s, "task_id") THEN s["task_id"] ELSE ""

\* task_id of parse_generated_task: the one in shared state, else the one
\* extracted from the response text ("" when there is none)
PinnedTaskId(s, text) ==
    IF HasKey(s, "task_id") THEN s["task_id"] ELSE ParseTaskId(text)

parse_generated_task ==
    /\ Pending("parse_generated_task")
    /\ Invoked("parse_generated_task")
    /\ LET s1 == IF HasKey(shared, "retry_count") THEN shared
                 ELSE set_shared_state(shared, "retry_count", DefaultRetryCount)
           s2 == IF HasKey(s1, "max_retries") THEN s1
                 ELSE set_shared_state(s1, "max_retries", DefaultMaxRetries)
           task_id == PinnedTaskId(s2, msg.text)
       IN /\ shared' = s2
          /\ IF task_id = ""
             THEN Raise("parse_generated_task", "ValueError")
             ELSE send_message("parse_generated_task",
                      TaskInfo(task_id, "tests/" \o game_name \o "/" \o task_id))
    /\ UNCHANGED <<generated_ideas, task_files, workflows, outputs, game_root, unsuccessful, environ, initial_state, test_result_txt>>

\* the reasons of the failed details, except the two bookkeeping entries
FailureReasons(result) ==
    LET failed == SelectSeq(result.details,
                      LAMBDA detail :
                          /\ ~detail.is_valid
                          /\ detail.reason \notin {"Validation completed", "Directory listing"})
    IN IF ~result.is_valid /\ Len(result.details) > 0
       THEN [i \in 1..Len(failed) |-> failed[i].reason]
       ELSE <<>>

\* mutant: every failure reason is listed
DetailedReason_Uncapped(result) ==
    LET failure_reasons == FailureReasons(result)
    IN IF Len(failure_reasons) > 0
       THEN Join("; ", failure_reasons)
       ELSE IF ~result.is_valid
       THEN "Validation failed - check file structure and syntax"
       ELSE "All validation checks passed"

\* detailed_reason of run_validation
DetailedReason(result) ==
    LET failure_reasons == FailureReasons(result)
        n == Len(failure_reasons)
    IN IF n > 0
       THEN Join("; ", SubSeq(failure_reasons, 1, IF n < ReasonCap THEN n ELSE ReasonCap))
            \o (IF n > ReasonCap
                THEN " (and " \o ToString(n - ReasonCap) \o " more errors)"
                ELSE "")
       ELSE IF ~result.is_valid
       THEN "Validation failed - check file structure and syntax"
       ELSE "All validation checks passed"

\* mutant: what the validator finds does not depend on the directory
FailingChecks_Any(task_id) == 0..MaxCauses

\* the numbers of failing checks the validator can find in the directory of
\* task_id: the one its tracked content has, any of CauseCounts otherwise
FailingChecks(task_id) ==
    IF task_id \in DOMAIN task_files
    THEN {task_files[task_id].failing}
    ELSE CauseCounts

\* mutant: the validation result is sent on but not stored
run_validation_NotStoring ==
    /\ Pending("run_validation")
    /\ Invoked("run_validation")
    /\ \/ /\ Raise("run_validation", "OSError")
          /\ shared' = shared
       \/ \E k \in FailingChecks(msg.task_id) :
             LET result == validate_task_directory(msg.task_id,
                                                   msg.task_id \in game_root, k)
                 validation == ValidationResult(result.is_valid, DetailedReason(result),
                                                msg.task_id, msg.task_directory)
             IN /\ shared' = shared
                /\ send_message("run_validation",
                       TaskWithValidation(validation.task_id, validation.task_directory,
                                          validation))
    /\ UNCHANGED <<generated_ideas, task_files, workflows, outputs, game_root, unsuccessful, environ, initial_state, test_result_txt>>

run_validation ==
    /\ Pending("run_validation")
    /\ Invoked("run_validation")
    /\ \/ \* the file system refuses access outside the validator's handlers
          /\ Raise("run_validation", "OSError")
          /\ shared' = shared
       \/ \E k \in FailingChecks(msg.task_id) :
             LET result == validate_task_directory(msg.task_id,
                                                   msg.task_id \in game_root, k)
                 validation == ValidationResult(result.is_valid, DetailedReason(result),
                                                msg.task_id, msg.task_directory)
             IN /\ shared' = set_shared_state(shared, "validation_" \o validation.task_id,
                                              validation)
                /\ send_message("run_validation",
                       TaskWithValidation(validation.task_id, validation.task_directory,
                                          validation))
    /\ UNCHANGED <<generated_ideas, task_files, workflows, outputs, game_root, unsuccessful, environ, initial_state, test_result_txt>>

\* run_pytest_command saves the output as test_result.txt in the task folder;
\* a failure to write it is only logged
SaveTestOutput(task_id, output) ==
    IF task_id \in game_root THEN output ELSE test_result_txt

\* the subprocess runs pytest can give for a task directory
PytestRuns(task_id, runs) ==
    IF task_id \in game_root THEN runs ELSE {MissingRun}

run_pytest ==
    /\ Pending("run_pytest")
    /\ Invoked("run_pytest")
    /\ \/ \* subprocess.run raises: the executor has no handler for it
          /\ Raise("run_pytest", "OSError")
          /\ shared' = shared
          /\ test_result_txt' = test_result_txt
       \/ \E run \in PytestRuns(msg.task_id, NormalRuns) :
             LET result == run_pytest_command(run)
                 captured == Len(result.details) > 0
                 raw_output == IF captured THEN result.details[1] ELSE ""
             IN /\ shared' = IF captured
                             THEN set_shared_state(shared, "raw_output_" \o msg.task_id,
                                                   raw_output)
                             ELSE shared
                /\ test_result_txt' = SaveTestOutput(msg.task_id, run.output)
                /\ send_message("run_pytest",
                       TestResult(result.is_valid, result.reason, msg.task_id,
                                  msg.task_directory, raw_output))
    /\ UNCHANGED <<generated_ideas, task_files, workflows, outputs, game_root, unsuccessful, environ, initial_state>>

\* ctx.get_shared_state(key) with the fallback of its except KeyError branch
GetOr(s, key, default) == IF HasKey(s, key) THEN s[key] ELSE default

\* mutant: the stored validation result is ignored
DecisionValidation_Assumed(s, test_result) ==
    ValidationResult(TRUE, "Validation passed (assumed)",
                     test_result.task_id, test_result.task_directory)

\* validation of make_decision: the one stored for the task id, else an
\* assumed pass
DecisionValidation(s, test_result) ==
    GetOr(s, "validation_" \o test_result.task_id,
          ValidationResult(TRUE, "Validation passed (assumed)",
                           test_result.task_id, test_result.task_directory))

\* mutant: the decision counts the attempt it is deciding
DecisionRetryCount_Ahead(s) == GetOr(s, "retry_count", DefaultRetryCount) + 1

\* retry_count of make_decision: the one in shared state, 0 if there is none
DecisionRetryCount(s) == GetOr(s, "retry_count", DefaultRetryCount)

\* mutant: the budget is the default whatever the run was started with
DecisionMaxRetries_Default(s) == DefaultMaxRetries

\* make_decision: max_retries from shared state, 3 when the key is missing
DecisionMaxRetries(s) == GetOr(s, "max_retries", DefaultMaxRetries)

\* mutant: the decision is recorded in shared state
make_decision_Recording ==
    /\ Pending("make_decision")
    /\ Invoked("make_decision")
    /\ LET test_result == msg
           validation == DecisionValidation(shared, test_result)
           combined == CombinedValidationResult(
                           validation, test_result,
                           DecisionRetryCount(shared),
                           DecisionMaxRetries(shared),
                           GetOr(shared, "target_topic", ""),
                           GetOr(shared, "concept_description", ""),
                           GetOr(shared, "difficulty", ""),
                           GetOr(shared, "objective", ""))
       IN /\ send_message("make_decision", combined)
          /\ shared' = set_shared_state(shared, "decision_" \o msg.task_id,
                                        should_keep(combined))
    /\ UNCHANGED <<generated_ideas, task_files, workflows, outputs, game_root, unsuccessful, environ, initial_state, test_result_txt>>

make_decision ==
    /\ Pending("make_decision")
    /\ Invoked("make_decision")
    /\ LET test_result == msg
           validation == DecisionValidation(shared, test_result)
           combined == CombinedValidationResult(
                           validation, test_result,
                           DecisionRetryCount(shared),
                           DecisionMaxRetries(shared),
                           GetOr(shared, "target_topic", ""),
                           GetOr(shared, "concept_description", ""),
                           GetOr(shared, "difficulty", ""),
                           GetOr(shared, "objective", ""))
       IN send_message("make_decision", combined)
    /\ UNCHANGED <<generated_ideas, task_files, workflows, shared, outputs, game_root, unsuccessful, environ, initial_state, test_result_txt>>

\* mutant: the task is handed on without the output
keep_task_Silent ==
    /\ Pending("keep_task")
    /\ Invoked("keep_task")
    /\ outputs' = outputs
    /\ send_message("keep_task", msg)
    /\ UNCHANGED <<generated_ideas, task_files, workflows, shared, game_root, unsuccessful, environ, initial_state, test_result_txt>>

keep_task ==
    /\ Pending("keep_task")
    /\ Invoked("keep_task")
    /\ outputs' = Append(outputs, "Task " \o msg.test.task_id
                                  \o " passed all checks and has been kept.")
    /\ send_message("keep_task", msg)
    /\ UNCHANGED <<generated_ideas, task_files, workflows, shared, game_root, unsuccessful, environ, initial_state, test_result_txt>>

\* the reasons list remove_task and complete_workflow build from the verdicts
VerdictReasons(combined) ==
    (IF ~combined.validation.is_valid
     THEN <<"Validation failed: " \o combined.validation.reason>> ELSE <<>>)
    \o (IF ~combined.test.is_valid
        THEN <<"Tests failed: " \o combined.test.reason>> ELSE <<>>)

\* mutant: the failure is counted twice
RemoveTaskRetryCount_Twice(combined) == combined.retry_count + 2

\* remove_task: "Increment retry count"
RemoveTaskRetryCount(combined) == combined.retry_count + 1

\* mutant: the failed task is deleted from the game folder
remove_task_Deleting ==
    /\ Pending("remove_task")
    /\ Invoked("remove_task")
    /\ LET combined == msg
           reasons == VerdictReasons(combined)
           retry_count == RemoveTaskRetryCount(combined)
       IN /\ shared' = set_shared_state(
                       set_shared_state(shared, "retry_count", retry_count),
                           "failure_reasons_" \o combined.test.task_id, reasons)
          /\ outputs' = Append(outputs,
                 "Task " \o combined.test.task_id \o " failed checks (attempt "
                 \o ToString(combined.retry_count + 1) \o "/"
                 \o ToString(combined.max_retries) \o "). Reasons: "
                 \o Join("; ", reasons))
          /\ send_message("remove_task",
                 [combined EXCEPT !.retry_count = retry_count])
    /\ game_root' = game_root \ {msg.test.task_id}
    /\ UNCHANGED <<generated_ideas, task_files, workflows, unsuccessful, environ, initial_state, test_result_txt>>

remove_task ==
    /\ Pending("remove_task")
    /\ Invoked("remove_task")
    /\ LET combined == msg
           reasons == VerdictReasons(combined)
           retry_count == RemoveTaskRetryCount(combined)
       IN /\ shared' = set_shared_state(
                       set_shared_state(shared, "retry_count", retry_count),
                           "failure_reasons_" \o combined.test.task_id, reasons)
          /\ outputs' = Append(outputs,
                 "Task " \o combined.test.task_id \o " failed checks (attempt "
                 \o ToString(combined.retry_count + 1) \o "/"
                 \o ToString(combined.max_retries) \o "). Reasons: "
                 \o Join("; ", reasons))
          /\ send_message("remove_task",
                 [combined EXCEPT !.retry_count = retry_count])
    /\ UNCHANGED <<generated_ideas, task_files, workflows, game_root, unsuccessful, environ, initial_state, test_result_txt>>

check_loop ==
    /\ Pending("check_loop")
    /\ Invoked("check_loop")
    /\ send_message("check_loop", msg)
    /\ UNCHANGED <<generated_ideas, task_files, workflows, shared, outputs, game_root, unsuccessful, environ, initial_state, test_result_txt>>

\* the failure lines fix_task and retry_generation put in their prompt
PromptReasons(combined) ==
    (IF ~combined.validation.is_valid
     THEN <<"Validation: " \o combined.validation.reason>> ELSE <<>>)
    \o (IF ~combined.test.is_valid
        THEN <<"Tests: " \o combined.test.reason>> ELSE <<>>)

\* the raw test output fix_task and complete_workflow use: the one in shared
\* state, else the one of the test result
RawTestOutput(s, combined) ==
    GetOr(s, "raw_output_" \o combined.test.task_id, combined.test.raw_output)

\* fix_prompt of fix_task (the fixed instructions are abridged)
FixPrompt(s, combined) ==
    LET task_id == combined.test.task_id
        raw_test_output == RawTestOutput(s, combined)
    IN "Fix the failed Kubernetes task '" \o task_id \o "' located in '"
       \o game_name \o "/" \o task_id \o "/'. This is fix attempt "
       \o ToString(combined.retry_count + 1) \o " of "
       \o ToString(combined.max_retries) \o ". TASK FAILED WITH THESE ERRORS: "
       \o Join(" ", [i \in 1..Len(PromptReasons(combined)) |->
                        "- " \o PromptReasons(combined)[i]])
       \o (IF raw_test_output # ""
           THEN " FULL TEST OUTPUT: " \o raw_test_output ELSE "")
       \o " Make TARGETED FIXES to ONLY the broken files. Concept: "
       \o combined.target_topic \o " Description: " \o combined.concept_description

\* mutant: only the topic is required
MissingMetadata_TopicOnly(combined) == combined.target_topic = ""

\* fix_task: "if not target_topic or not concept_description"
MissingMetadata(combined) ==
    combined.target_topic = "" \/ combined.concept_description = ""

\* mutant: the objective kept for the repair is the reason of the failure
FixTaskState_Reason(s, combined) ==
    set_shared_state(
    set_shared_state(
    set_shared_state(
    set_shared_state(
    set_shared_state(s,
        "task_id", combined.test.task_id),
        "target_topic", combined.target_topic),
        "concept_description", combined.concept_description),
        "difficulty", combined.difficulty),
        "objective", combined.test.reason)

\* the shared state after fix_task has stored the task's metadata again
FixTaskState(s, combined) ==
    set_shared_state(
    set_shared_state(
    set_shared_state(
    set_shared_state(
    set_shared_state(s,
        "task_id", combined.test.task_id),
        "target_topic", combined.target_topic),
        "concept_description", combined.concept_description),
        "difficulty", combined.difficulty),
        "objective", combined.objective)

fix_task ==
    /\ Pending("fix_task")
    /\ Invoked("fix_task")
    /\ LET combined == msg
       IN IF MissingMetadata(combined)
          THEN /\ Raise("fix_task", "ValueError")
               /\ shared' = shared
          ELSE /\ shared' = FixTaskState(shared, combined)
               /\ send_message("fix_task",
                      AgentExecutorRequest(FixPrompt(shared', combined)))
    /\ UNCHANGED <<generated_ideas, task_files, workflows, outputs, game_root, unsuccessful, environ, initial_state, test_result_txt>>

\* mutant: the expected failure of the check step is taken for a defect
test_05_failed_Inverted(raw_output) ==
    ~(/\ Contains(raw_output, "test_05_check.py")
      /\ (Contains(raw_output, "FAILED") \/ Contains(Lower(raw_output), "failed")))

\* test_05_failed of run_pytest_skip_answer
test_05_failed(raw_output) ==
    /\ Contains(raw_output, "test_05_check.py")
    /\ (Contains(raw_output, "FAILED") \/ Contains(Lower(raw_output), "failed"))

\* test_03_skipped of run_pytest_skip_answer (logged only)
test_03_skipped(raw_output) ==
    /\ Contains(raw_output, "test_03_answer.py")
    /\ (Contains(raw_output, "SKIPPED") \/ Contains(Lower(raw_output), "skipped"))

SkipAnswerReason ==
    "test_05_check.py did not fail when answer was skipped (SKIP_ANSWER_TESTS=True)"

\* mutant: a failed negative verification is not counted
SkipAnswerRetryCount_Unchanged(combined) == combined.retry_count

\* run_pytest_skip_answer: "Increment retry count"
SkipAnswerRetryCount(combined) == combined.retry_count + 1

run_pytest_skip_answer ==
    /\ Pending("run_pytest_skip_answer")
    /\ Invoked("run_pytest_skip_answer")
    /\ LET combined == msg
           original_env == environ
       IN \/ \* subprocess.run raises; the finally block restores the variable
             /\ Raise("run_pytest_skip_answer", "OSError")
             /\ shared' = shared
             /\ environ' = original_env
             /\ test_result_txt' = test_result_txt
          \/ \E run \in PytestRuns(combined.test.task_id, SkipRuns) :
                LET result == run_pytest_command(run)
                    raw_output == IF Len(result.details) > 0
                                  THEN result.details[1] ELSE ""
                    new_test_result ==
                        TestResult(FALSE, SkipAnswerReason, combined.test.task_id,
                                   combined.test.task_directory, raw_output)
                    retry_count == SkipAnswerRetryCount(combined)
                IN /\ IF test_05_failed(raw_output)
                      THEN /\ shared' = shared
                           /\ send_message("run_pytest_skip_answer", combined)
                      ELSE /\ shared' =
                                set_shared_state(
                                set_shared_state(shared, "retry_count", retry_count),
                                    "failure_reasons_" \o combined.test.task_id,
                                    <<"Skip answer test validation failed: "
                                      \o new_test_result.reason>>)
                           /\ send_message("run_pytest_skip_answer",
                                  [combined EXCEPT !.test = new_test_result,
                                                   !.retry_count = retry_count])
                   /\ environ' = original_env
                   /\ test_result_txt' = SaveTestOutput(combined.test.task_id, run.output)
    /\ UNCHANGED <<generated_ideas, task_files, workflows, outputs, game_root, unsuccessful, initial_state>>

\* the lines complete_workflow writes to FAILURE_REPORT.txt
FailureReport(s, combined, session_json_content) ==
    LET reasons == GetOr(s, "failure_reasons_" \o combined.test.task_id,
                         VerdictReasons(combined))
        raw_test_output == RawTestOutput(s, combined)
    IN <<"Task ID: " \o combined.test.task_id,
         "Total Retry Attempts: " \o ToString(combined.retry_count),
         "Final Failure Reasons:">>
       \o [i \in 1..Len(reasons) |-> "  - " \o reasons[i]]
       \o <<"Validation Details:",
            "  Valid: " \o BoolStr(combined.validation.is_valid),
            "  Reason: " \o combined.validation.reason,
            "Test Details:",
            "  Valid: " \o BoolStr(combined.test.is_valid),
            "  Reason: " \o combined.test.reason>>
       \o (IF session_json_content # ""
           THEN <<"SESSION.JSON CONTENT:", session_json_content>> ELSE <<>>)
       \o (IF raw_test_output # ""
           THEN <<"FULL TEST OUTPUT:", raw_test_output>>
           ELSE <<"Full test output saved in: test_result.txt">>)

\* contents session.json of the moved directory can have ("" when it has none)
SessionContents == {"", "{}"}

\* shutil.move(task_path, path) followed by the write of the report
MoveAndReport(dirs, path, report, written) ==
    IF path \in DOMAIN dirs
    THEN [dirs EXCEPT ![path] =
              [holds |-> @.holds \cup {"nested"},
               report |-> IF written THEN report ELSE @.report]]
    ELSE [n \in (DOMAIN dirs) \cup {path} |->
              IF n = path
              THEN [holds |-> {"moved"}, report |-> IF written THEN report ELSE <<>>]
              ELSE dirs[n]]

complete_workflow ==
    /\ Pending("complete_workflow")
    /\ Invoked("complete_workflow")
    /\ LET combined == msg
           task_id == combined.test.task_id
           unsuccessful_task_path ==
               IF task_id \in DOMAIN unsuccessful
               THEN task_id \o "_" \o Timestamp ELSE task_id
           failed_output ==
               "Workflow complete: Failed to generate valid task after "
               \o ToString(combined.retry_count)
               \o " retries. Task moved to unsuccessful folder."
       IN IF should_keep(combined)
          THEN /\ outputs' = Append(outputs, "Workflow complete: Task " \o task_id
                                             \o " successfully generated")
               /\ NoMessage("complete_workflow")
               /\ UNCHANGED <<game_root, unsuccessful>>
          ELSE IF task_id \notin game_root
          THEN /\ outputs' = Append(outputs, failed_output)
               /\ NoMessage("complete_workflow")
               /\ UNCHANGED <<game_root, unsuccessful>>
          ELSE \/ \* shutil.move raises
                  /\ Raise("complete_workflow", "OSError")
                  /\ UNCHANGED <<outputs, game_root, unsuccessful>>
               \/ \* the directory is moved, then open() of the report raises
                  /\ Raise("complete_workflow", "OSError")
                  /\ game_root' = game_root \ {task_id}
                  /\ unsuccessful' = MoveAndReport(unsuccessful, unsuccessful_task_path,
                                                   <<>>, FALSE)
                  /\ outputs' = outputs
               \/ \E session_json_content \in SessionContents :
                     /\ game_root' = game_root \ {task_id}
                     /\ unsuccessful' =
                            MoveAndReport(unsuccessful, unsuccessful_task_path,
                                FailureReport(shared, combined, session_json_content),
                                TRUE)
                     /\ outputs' = Append(outputs, failed_output)
                     /\ NoMessage("complete_workflow")
    /\ UNCHANGED <<generated_ideas, task_files, workflows, shared, environ, initial_state, test_result_txt>>

Next ==
    \/ run_stream
    \/ initialize_retry
    \/ generator_agent
    \/ parse_generated_task
    \/ run_validation
    \/ run_pytest
    \/ make_decision
    \/ keep_task
    \/ remove_task
    \/ check_loop
    \/ fix_task
    \/ fixer_agent
    \/ run_pytest_skip_answer
    \/ complete_workflow

Spec == Init /\ [][Next]_vars

----------------------------------------------------------------------------
(* parse_generated_task over its whole input domain.  In the graph of      *)
(* build_workflow the executor always finds task_id in shared state,       *)
(* because initialize_retry sets it or raises.  The executor also handles  *)
(* a shared state nothing was stored in (its except KeyError branches):    *)
(* this specification starts a run at the executor, with the generator's   *)
(* response delivered and shared state either as initialize_retry leaves   *)
(* it or empty, and lets the workflow go on from there.                    *)

\* shared state after initialize_retry has handled the start message m
SharedAfterInit(m) ==
    IF m.type = "InitialWorkflowState"
    THEN [k \in {"task_id", "target_topic", "concept_description", "difficulty",
                 "objective", "retry_count", "max_retries"} |-> m[k]]
    ELSE [k \in {} |-> 0]

InitParse ==
    /\ workflows = <<>>
    /\ generated_ideas = <<>>
    /\ task_files = <<>>
    /\ status = "running"
    /\ error = ""
    /\ active = {"parse_generated_task"}
    /\ \E run \in AgentRuns :
          /\ msg = AgentExecutorResponse(run.text)
          /\ game_root = IF run.creates = "" THEN {} ELSE {run.creates}
    /\ \E message \in StartMessages :
          /\ shared = SharedAfterInit(message)
          /\ initial_state = message
    /\ outputs = <<>>
    /\ calls = [id \in ExecutorIds |-> 0]
    /\ unsuccessful \in
         {[n \in {} |-> 0],
          [n \in {"001_alpha"} |-> [holds |-> {"old"}, report |-> <<>>]]}
    /\ environ = "<unset>"
    /\ test_result_txt = ""

NextParse ==
    \/ parse_generated_task
    \/ run_validation
    \/ run_pytest
    \/ make_decision
    \/ keep_task
    \/ remove_task
    \/ check_loop
    \/ fix_task
    \/ fixer_agent
    \/ run_pytest_skip_answer
    \/ complete_workflow

SpecParse == InitParse /\ [][NextParse]_vars

----------------------------------------------------------------------------
(* make_decision over its whole input domain.  In the graph of             *)
(* build_workflow run_validation has always stored its result before       *)
(* make_decision runs.  The executor also handles a shared state that      *)
(* lacks the validation result, the counters or the metadata (its except   *)
(* KeyError branches): this specification starts a run at the executor,    *)
(* with the test result of run_pytest delivered and shared state with or   *)
(* without those keys, and lets the workflow go on from there.             *)

\* the validation results run_validation can have stored for the task
StoredValidations(task_id, exists) ==
    {ValidationResult(result.is_valid, DetailedReason(result), task_id,
                      "tests/" \o game_name \o "/" \o task_id) :
        result \in {validate_task_directory(task_id, exists, k) : k \in CauseCounts}}

InitDecide ==
    /\ workflows = <<>>
    /\ generated_ideas = <<>>
    /\ task_files = <<>>
    /\ status = "running"
    /\ error = ""
    /\ active = {"make_decision"}
    /\ game_root \in {{}, StartTaskIds}
    /\ \E task_id \in StartTaskIds, message \in StartMessages :
       \E run \in (IF task_id \in game_root THEN NormalRuns ELSE {MissingRun}) :
          LET result == run_pytest_command(run)
              seeded == set_shared_state(SharedAfterInit(message),
                                         "raw_output_" \o task_id, run.output)
          IN /\ msg = TestResult(result.is_valid, result.reason, task_id,
                                 "tests/" \o game_name \o "/" \o task_id, run.output)
             /\ test_result_txt = (IF task_id \in game_root THEN run.output ELSE "")
             /\ initial_state = message
             /\ \/ shared = seeded
                \/ \E validation \in StoredValidations(task_id, task_id \in game_root) :
                      shared = set_shared_state(seeded, "validation_" \o task_id,
                                                validation)
    /\ outputs = <<>>
    /\ calls = [id \in ExecutorIds |-> 0]
    /\ unsuccessful = [n \in {} |-> 0]
    /\ environ = "<unset>"

NextDecide ==
    \/ make_decision
    \/ keep_task
    \/ remove_task
    \/ check_loop
    \/ fix_task
    \/ fixer_agent
    \/ parse_generated_task
    \/ run_validation
    \/ run_pytest
    \/ run_pytest_skip_answer
    \/ complete_workflow

SpecDecide == InitDecide /\ [][NextDecide]_vars

----------------------------------------------------------------------------
(* Two runs in one process.  Each run has its own workflow, shared state   *)
(* and task directory; os.environ is the one thing of the process the      *)
(* executors write.  Only the stages from run_pytest on are modelled, the  *)
(* earlier ones do not touch the environment.  An executor is a coroutine: *)
(* another run can take a step wherever it awaits, so                      *)
(* run_pytest_skip_answer is two steps, up to its first await (the         *)
(* variable is set and pytest has run) and from there on (the result is    *)
(* sent and the finally block restores the variable).  run_pytest_command  *)
(* is a blocking call: the subprocess inherits the environment as it is at *)
(* that moment.                                                            *)

Runs == {1, 2}

\* largest max_retries of a concurrent run
MaxConcurrentRetries == 2

\* what an agent wrote: a task whose check fails without the answer, one
\* whose check passes without it, one whose check fails with it
Artifacts == {"good", "vacuous", "broken"}

\* the pytest subprocess on an artifact, by the SKIP_ANSWER_TESTS it inherits
ArtifactRun(artifact, skip_answer_tests) ==
    IF skip_answer_tests = "True"
    THEN IF artifact = "vacuous"
         THEN [returncode |-> 0, output |-> OutSkipVacuous]
         ELSE [returncode |-> 1, output |-> OutSkipExpected]
    ELSE IF artifact = "broken"
         THEN [returncode |-> 1, output |-> OutCheckFailed]
         ELSE [returncode |-> 0, output |-> OutAllPassed]

\* the run r goes on with the fields of its state changed as in changes
UpdateRun(r, changes) ==
    /\ workflows' = [workflows EXCEPT ![r] =
           [f \in DOMAIN @ |-> IF f \in DOMAIN changes THEN changes[f] ELSE @[f]]]
    /\ UNCHANGED <<status, error, active, msg, shared, outputs, calls, game_root,
                   unsuccessful, initial_state, test_result_txt, task_files,
                   generated_ideas>>

InitConcurrent ==
    /\ workflows \in
         [Runs -> {[pc |-> "run_pytest", artifact |-> a, retry_count |-> 0,
                    max_retries |-> mx, test_is_valid |-> FALSE, raw_output |-> "",
                    inherited |-> "", original_env |-> "", test_05_failed |-> FALSE] :
                      a \in Artifacts, mx \in 1..MaxConcurrentRetries}]
    /\ task_files = <<>>
    /\ generated_ideas = <<>>
    /\ environ = "<unset>"
    /\ status = "running"
    /\ error = ""
    /\ active = {}
    /\ msg = [type |-> "None"]
    /\ shared = [k \in {} |-> 0]
    /\ outputs = <<>>
    /\ calls = [id \in ExecutorIds |-> 0]
    /\ game_root = TaskIds
    /\ unsuccessful = [n \in {} |-> 0]
    /\ initial_state = [type |-> "None"]
    /\ test_result_txt = ""

\* run_pytest of run r
run_pytest_in(r) ==
    /\ workflows[r].pc = "run_pytest"
    /\ LET run == ArtifactRun(workflows[r].artifact, environ)
           result == run_pytest_command(run)
       IN UpdateRun(r, [pc |-> "make_decision", test_is_valid |-> result.is_valid,
                        raw_output |-> result.details[1], inherited |-> environ])
    /\ environ' = environ

\* make_decision of run r, routed by select_action
make_decision_in(r) ==
    /\ workflows[r].pc = "make_decision"
    /\ UpdateRun(r, [pc |-> IF workflows[r].test_is_valid
                            THEN "keep_task" ELSE "remove_task"])
    /\ environ' = environ

keep_task_in(r) ==
    /\ workflows[r].pc = "keep_task"
    /\ UpdateRun(r, [pc |-> "run_pytest_skip_answer"])
    /\ environ' = environ

remove_task_in(r) ==
    /\ workflows[r].pc = "remove_task"
    /\ UpdateRun(r, [pc |-> "check_loop",
                     retry_count |-> workflows[r].retry_count + 1])
    /\ environ' = environ

\* run_pytest_skip_answer of run r up to its first await
run_pytest_skip_answer_in(r) ==
    /\ workflows[r].pc = "run_pytest_skip_answer"
    /\ LET original_env == environ
           run == ArtifactRun(workflows[r].artifact, "True")
           result == run_pytest_command(run)
       IN UpdateRun(r, [pc |-> "run_pytest_skip_answer_await",
                        original_env |-> original_env,
                        raw_output |-> result.details[1],
                        test_05_failed |-> test_05_failed(result.details[1])])
    /\ environ' = "True"

\* run_pytest_skip_answer of run r from its first await to its return
run_pytest_skip_answer_finally_in(r) ==
    /\ workflows[r].pc = "run_pytest_skip_answer_await"
    /\ IF workflows[r].test_05_failed
       THEN UpdateRun(r, [pc |-> "complete_workflow"])
       ELSE UpdateRun(r, [pc |-> "check_loop", test_is_valid |-> FALSE,
                          retry_count |-> workflows[r].retry_count + 1])
    /\ environ' = workflows[r].original_env

\* check_loop of run r, routed by select_loop_action
check_loop_in(r) ==
    /\ workflows[r].pc = "check_loop"
    /\ UpdateRun(r, [pc |-> IF workflows[r].retry_count < workflows[r].max_retries
                            THEN "fix_task" ELSE "complete_workflow"])
    /\ environ' = environ

\* fix_task and the fixer agent of run r: the task is rewritten
fix_task_in(r) ==
    /\ workflows[r].pc = "fix_task"
    /\ \E artifact \in Artifacts :
          UpdateRun(r, [pc |-> "run_pytest", artifact |-> artifact])
    /\ environ' = environ

complete_workflow_in(r) ==
    /\ workflows[r].pc = "complete_workflow"
    /\ UpdateRun(r, [pc |-> "done"])
    /\ environ' = environ

NextConcurrent ==
    \/ \E r \in Runs : run_pytest_in(r)
    \/ \E r \in Runs : make_decision_in(r)
    \/ \E r \in Runs : keep_task_in(r)
    \/ \E r \in Runs : remove_task_in(r)
    \/ \E r \in Runs : run_pytest_skip_answer_in(r)
    \/ \E r \in Runs : run_pytest_skip_answer_finally_in(r)
    \/ \E r \in Runs : check_loop_in(r)
    \/ \E r \in Runs : fix_task_in(r)
    \/ \E r \in Runs : complete_workflow_in(r)

SpecConcurrent == InitConcurrent /\ [][NextConcurrent]_vars

----------------------------------------------------------------------------
(* run_validation called again and again.  The content of the task         *)
(* directories is tracked: what the validator finds is a function of it.   *)
(* A caller hands run_validation a TaskInfo, takes the result and hands it *)
(* the next one, for the same task or another one; before a call an agent  *)
(* may rewrite or delete a task directory.                                 *)

\* largest number of calls of run_validation in a row
MaxValidations == 3

\* the tracked content of a task directory: the number of checks that fail
\* on it, and whether it was written since it was last validated
TaskFiles(failing, modified) == [failing |-> failing, modified |-> modified]

InitValidate ==
    /\ workflows = <<>>
    /\ generated_ideas = <<>>
    /\ status = "running"
    /\ error = ""
    /\ active = {"run_validation"}
    /\ game_root \in SUBSET TaskIds
    /\ task_files \in
         {files \in [TaskIds -> {TaskFiles(k, FALSE) : k \in 0..MaxCauses}] :
             \A id \in TaskIds \ game_root : files[id].failing = 0}
    /\ \E task_id \in StartTaskIds :
          msg = TaskInfo(task_id, "tests/" \o game_name \o "/" \o task_id)
    /\ \E message \in StartMessages :
          /\ message.type = "InitialWorkflowState"
          /\ message.retry_count = 0
          /\ message.max_retries = DefaultMaxRetries
          /\ message.target_topic # ""
          /\ message.concept_description # ""
          /\ shared = SharedAfterInit(message)
          /\ initial_state = message
    /\ outputs = <<>>
    /\ calls = [id \in ExecutorIds |-> 0]
    /\ unsuccessful = [n \in {} |-> 0]
    /\ environ = "<unset>"
    /\ test_result_txt = ""

\* the result of run_validation is taken and the next TaskInfo handed over
next_task_info ==
    /\ status = "running"
    /\ active = {"run_pytest"}
    /\ calls["run_validation"] < MaxValidations
    /\ \E task_id \in TaskIds :
          msg' = TaskInfo(task_id, "tests/" \o game_name \o "/" \o task_id)
    /\ task_files' = [task_files EXCEPT ![msg.task_id].modified = FALSE]
    /\ active' = {"run_validation"}
    /\ UNCHANGED <<workflows, status, error, shared, outputs, calls, game_root,
                   unsuccessful, environ, initial_state, test_result_txt,
                   generated_ideas>>

\* an agent writes the directory of a task, or deletes it, before the call
write_task_files ==
    /\ status = "running"
    /\ active = {"run_validation"}
    /\ \E task_id \in TaskIds :
          \/ \E k \in 0..MaxCauses :
                /\ TaskFiles(k, TRUE) # task_files[task_id]
                /\ game_root' = game_root \cup {task_id}
                /\ task_files' = [task_files EXCEPT ![task_id] = TaskFiles(k, TRUE)]
          \/ /\ task_id \in game_root
             /\ game_root' = game_root \ {task_id}
             /\ task_files' = [task_files EXCEPT ![task_id] = TaskFiles(0, TRUE)]
    /\ UNCHANGED <<workflows, status, error, active, msg, shared, outputs, calls,
                   unsuccessful, environ, initial_state, test_result_txt,
                   generated_ideas>>

NextValidate ==
    \/ run_validation
    \/ next_task_info
    \/ write_task_files

SpecValidate == InitValidate /\ [][NextValidate]_vars

----------------------------------------------------------------------------
(* The idea memory: src/agents/k8s_task_idea_agent.py, and the end of the  *)
(* runner, which saves the concept of a run that succeeded.                *)

K8sTaskConcept(concept, tags, description, variations) ==
    [concept |-> concept, tags |-> tags, description |-> description,
     variations |-> variations]

\* TaskIdeasMemory.concept_exists on the ideas of the memory
concept_exists(ideas, concept) ==
    \E key \in DOMAIN ideas : Lower(ideas[key].concept) = Lower(concept)

\* the key add_structured_concept stores a concept under
ConceptTaskId(concept) == Lower(Replace(Replace(concept, " ", "_"), "*", ""))

\* TaskIdeasMemory.add_structured_concept: the ideas of the memory after it
add_structured_concept(ideas, concept_data) ==
    LET task_id == ConceptTaskId(concept_data.concept)
        idea == [concept |-> concept_data.concept,
                 description |-> concept_data.description,
                 variations |-> concept_data.variations,
                 difficulty |-> "Mixed (Beginner>Intermediate>Advanced)",
                 tags |-> concept_data.tags]
    IN IF concept_exists(ideas, concept_data.concept)
       THEN ideas
       ELSE [key \in (DOMAIN ideas) \cup {task_id} |->
                IF key = task_id THEN idea ELSE ideas[key]]

\* workflow_succeeded of run_workflow after the event stream has ended
workflow_succeeded(events) ==
    \E i \in DOMAIN events : Contains(events[i], "successfully generated")

\* run_workflow after workflow.run_stream has ended without an exception
run_workflow ==
    /\ status = "completed"
    /\ status' = "returned"
    /\ LET concept == K8sTaskConcept(initial_state.target_topic, <<>>,
                                     initial_state.concept_description,
                                     <<initial_state.task_id>>)
       IN generated_ideas' =
              IF workflow_succeeded(outputs)
              THEN add_structured_concept(generated_ideas, concept)
              ELSE generated_ideas
    /\ UNCHANGED <<task_files, workflows, error, active, msg, shared, outputs, calls,
                   game_root, unsuccessful, environ, initial_state, test_result_txt>>

NextRunner ==
    \/ run_stream
    \/ initialize_retry
    \/ generator_agent
    \/ parse_generated_task
    \/ run_validation
    \/ run_pytest
    \/ make_decision
    \/ keep_task
    \/ remove_task
    \/ check_loop
    \/ fix_task
    \/ fixer_agent
    \/ run_pytest_skip_answer
    \/ complete_workflow
    \/ run_workflow

SpecRunner == Init /\ [][NextRunner]_vars

\* concepts an idea agent may come up with, run after run
Concepts ==
    {K8sTaskConcept(concept, <<"config">>, description, <<"001_alpha">>) :
        concept \in {"ConfigMaps", "configmaps", "Config Maps", "config_maps",
                     "Config*Maps", "Secrets", "secrets"},
        description \in {"Mount a ConfigMap", "Use it as environment"}}

\* the memory as TaskIdeasMemory loads it: no ideas yet, or one of an
\* earlier session
InitMemory ==
    /\ generated_ideas \in
         {<<>>, add_structured_concept(<<>>,
                    K8sTaskConcept("Config Maps", <<"config">>, "Mount a ConfigMap",
                                   <<"001_alpha">>))}
    /\ workflows = <<>>
    /\ task_files = <<>>
    /\ status = "idle"
    /\ error = ""
    /\ active = {}
    /\ msg = [type |-> "None"]
    /\ shared = [k \in {} |-> 0]
    /\ outputs = <<>>
    /\ calls = [id \in ExecutorIds |-> 0]
    /\ game_root = {}
    /\ unsuccessful = [n \in {} |-> 0]
    /\ environ = "<unset>"
    /\ initial_state = [type |-> "None"]
    /\ test_result_txt = ""

\* a caller adds a concept to the memory
add_concept ==
    /\ \E concept_data \in Concepts :
          generated_ideas' = add_structured_concept(generated_ideas, concept_data)
    /\ UNCHANGED <<task_files, workflows, status, error, active, msg, shared, outputs,
                   calls, game_root, unsuccessful, environ, initial_state,
                   test_result_txt>>

NextMemory == add_concept

SpecMemory == InitMemory /\ [][NextMemory]_vars

----------------------------------------------------------------------------
(* Vocabulary of the properties *)

\* the run was started by the runner, with an InitialWorkflowState
Started == initial_state.type = "InitialWorkflowState"

StartedAtZero == Started /\ initial_state.retry_count = 0

IsCombined == "type" \in DOMAIN msg /\ msg.type = "CombinedValidationResult"

\* the decision properties as the data model states them
KeepCondition(c) == c.validation.is_valid /\ c.test.is_valid

RetryCondition(c) == ~KeepCondition(c) /\ c.retry_count < c.max_retries

\* pytest marks a failed file with F after its name
CheckStepFailed(raw_output) == Contains(raw_output, "test_05_check.py F")

\* the executor id ran in the step
Ran(id) == calls'[id] = calls[id] + 1

SuccessOutput(task_id) ==
    "Workflow complete: Task " \o task_id \o " successfully generated"

FailureOutput(retry_count) ==
    "Workflow complete: Failed to generate valid task after "
    \o ToString(retry_count) \o " retries. Task moved to unsuccessful folder."

LastOutput == IF Len(outputs) = 0 THEN "" ELSE outputs[Len(outputs)]

\* terminal outputs emitted so far
TerminalOutputs ==
    {i \in DOMAIN outputs : Contains(outputs[i], "Workflow complete: ")}

\* Complete(success): the run is over, the artifact is kept
CompleteSuccess ==
    /\ status = "completed"
    /\ IsCombined
    /\ LastOutput = SuccessOutput(msg.test.task_id)
    /\ msg.validation.is_valid /\ msg.test.is_valid
    /\ msg.test.task_id \in game_root

\* Complete(failure): the run is over, the budget is used up and the artifact
\* is no longer in the working area
CompleteFailure ==
    /\ status = "completed"
    /\ IsCombined
    /\ LastOutput = FailureOutput(msg.retry_count)
    /\ ~(msg.validation.is_valid /\ msg.test.is_valid)
    /\ msg.retry_count >= msg.max_retries
    /\ msg.test.task_id \notin game_root

\* the directories of the unsuccessful area this run put its artifact in
Quarantined ==
    {n \in DOMAIN unsuccessful : unsuccessful[n].holds \cap {"moved", "nested"} # {}}

\* the failure reports this run wrote
Reports ==
    {unsuccessful[n].report : n \in {q \in Quarantined : unsuccessful[q].report # <<>>}}

----------------------------------------------------------------------------
(* C1: retry budget *)

----------------------------------------------------------------------------
(* C2: terminal states *)

----------------------------------------------------------------------------
(* C3: retry count bookkeeping *)

\* a step in which an attempt is recorded as failed: remove_task ran, or the
\* negative verification handed its result to the budget check
FailTransition ==
    \/ Ran("remove_task")
    \/ Ran("run_pytest_skip_answer") /\ "check_loop" \in active'

\* the attempts recorded as failed so far
FailedAttempts ==
    calls["remove_task"] + calls["run_pytest_skip_answer"]
    - (IF IsCombined /\ should_keep(msg)
          /\ (Pending("complete_workflow") \/ status = "completed")
       THEN 1 ELSE 0)

\* C3: retry_count in shared state never decreases; a Fail transition adds
\* exactly 1 to it and no other step changes it; it equals the initial count
\* plus the number of failed attempts, every attempt before the current one
\* having failed exactly once.
RetryCountOncePerFailure ==
    /\ [](( /\ status \in {"running", "completed"}
            /\ Started
            /\ HasKey(shared, "retry_count") ) =>
            /\ shared["retry_count"] = initial_state.retry_count + FailedAttempts
            /\ FailedAttempts \in {calls["parse_generated_task"] - 1,
                                   calls["parse_generated_task"]}
            /\ calls["fix_task"] <= FailedAttempts)
    /\ [][ HasKey(shared, "retry_count") =>
            /\ HasKey(shared', "retry_count")
            /\ shared'["retry_count"] =
                  IF FailTransition THEN shared["retry_count"] + 1
                  ELSE shared["retry_count"] ]_vars

\* one failure recorded by remove_task and a later one by the negative
\* verification: the count is 2 at the second budget check
RetryCountWitness ==
    /\ StartedAtZero
    /\ Pending("check_loop")
    /\ calls["remove_task"] = 1
    /\ calls["run_pytest_skip_answer"] = 1
    /\ msg.test.reason = SkipAnswerReason
    /\ shared["retry_count"] = 2

----------------------------------------------------------------------------
(* C4: quarantine only after the budget is exhausted *)

\* C4: the artifact is relocated or a failure report is written only by
\* complete_workflow, and only for a combined result with should_keep false
\* and should_retry false.
QuarantineOnlyWhenExhausted ==
    [][ (unsuccessful' # unsuccessful \/ ~(game_root \subseteq game_root')) =>
            /\ Ran("complete_workflow")
            /\ IsCombined
            /\ ~(msg.validation.is_valid /\ msg.test.is_valid)
            /\ ~should_keep(msg)
            /\ ~should_retry(msg)
            /\ msg.retry_count >= msg.max_retries ]_vars

\* the artifact was moved to the unsuccessful area and its report written
QuarantineWitness ==
    /\ status = "completed"
    /\ IsCombined
    /\ \E n \in Quarantined :
          /\ unsuccessful[n].report # <<>>
          /\ unsuccessful[n].report[1] = "Task ID: " \o msg.test.task_id
    /\ msg.test.task_id \notin game_root

----------------------------------------------------------------------------
(* C5: negative-verification guard *)

\* C5: when the check step did not fail in the run with the solution
\* suppressed, the negative verification yields a test verdict with valid =
\* false whose reason says that the check did not fail, counts one retry and
\* hands the result to the budget check.
NegativeVerificationGuard ==
    [][ ( /\ Ran("run_pytest_skip_answer")
          /\ status' = "running"
          /\ ~CheckStepFailed(test_result_txt') ) =>
            /\ msg'.test.is_valid = FALSE
            /\ Contains(msg'.test.reason, "did not fail when")
            /\ shared'["retry_count"] = shared["retry_count"] + 1
            /\ active' = {"check_loop"} ]_vars

----------------------------------------------------------------------------
(* C6: negative verification only on the keep path, and always before success *)

\* C6: the negative verification runs only for a combined result with
\* should_keep true; complete_workflow receives a result with should_keep true
\* only from the negative verification of the same combined result, whose
\* run reported the expected failure of the check step; so every
\* Complete(success) follows a negative verification.
SuccessOnlyThroughNegativeVerification ==
    /\ [](Pending("run_pytest_skip_answer") => (IsCombined /\ KeepCondition(msg)))
    /\ [](CompleteSuccess =>
            /\ calls["run_pytest_skip_answer"] >= 1
            /\ calls["keep_task"] = calls["run_pytest_skip_answer"]
            /\ test_05_failed(test_result_txt))
    /\ [][ ("complete_workflow" \in active' /\ KeepCondition(msg')) =>
            /\ Ran("run_pytest_skip_answer")
            /\ KeepCondition(msg)
            /\ msg' = msg
            /\ test_05_failed(test_result_txt') ]_vars

\* a run completed successfully after its negative verification saw the
\* check step fail
NegativeVerificationWitness ==
    /\ CompleteSuccess
    /\ calls["run_pytest_skip_answer"] = 1
    /\ CheckStepFailed(test_result_txt)

----------------------------------------------------------------------------
(* C7, C8: the decision properties of CombinedValidationResult *)

\* C7: for every combined result, should_keep is true iff validation.is_valid
\* and test.is_valid are both true.
ShouldKeepIffBothValid ==
    IsCombined => (should_keep(msg) <=> (msg.validation.is_valid /\ msg.test.is_valid))

\* a combined result with a failed validation and passing tests is not kept
ShouldKeepWitness ==
    /\ IsCombined
    /\ ~msg.validation.is_valid
    /\ msg.test.is_valid
    /\ ~should_keep(msg)
    /\ "remove_task" \in active

\* C8: for every combined result, should_retry is true iff should_keep is
\* false and retry_count < max_retries.
ShouldRetryIffFailedWithinBudget ==
    IsCombined =>
        (should_retry(msg) <=>
            (~KeepCondition(msg) /\ msg.retry_count < msg.max_retries))

\* a failed combined result whose retry_count has reached max_retries is not
\* retried
ShouldRetryWitness ==
    /\ IsCombined
    /\ Pending("check_loop")
    /\ ~KeepCondition(msg)
    /\ msg.retry_count = msg.max_retries
    /\ ~should_retry(msg)

----------------------------------------------------------------------------
(* C9, C10: routing *)

\* C9: the budget check passes its combined result on to fix_task alone when
\* should_retry holds for it and to complete_workflow alone otherwise.
BudgetCheckRouting ==
    [][ Ran("check_loop") =>
            /\ IsCombined
            /\ msg' = msg
            /\ active' = IF RetryCondition(msg) THEN {"fix_task"}
                         ELSE {"complete_workflow"} ]_vars

\* the budget check has sent a failed result with budget left to fix_task
BudgetCheckWitness ==
    /\ calls["check_loop"] >= 1
    /\ active = {"fix_task"}
    /\ RetryCondition(msg)
    /\ status = "running"

\* C10: make_decision passes its combined result on to keep_task alone when
\* should_keep holds for it and to remove_task alone otherwise.
DecisionRouting ==
    [][ Ran("make_decision") =>
            /\ IsCombined'
            /\ active' = IF KeepCondition(msg') THEN {"keep_task"}
                         ELSE {"remove_task"} ]_vars

\* make_decision has sent a passing result to keep_task
DecisionWitness ==
    /\ calls["make_decision"] >= 1
    /\ active = {"keep_task"}
    /\ IsCombined
    /\ KeepCondition(msg)

----------------------------------------------------------------------------
(* C11: the pinned artifact id *)

\* the task ids the message in flight carries
MessageTaskIds ==
    IF IsCombined THEN {msg.validation.task_id, msg.test.task_id}
    ELSE IF "task_id" \in DOMAIN msg THEN {msg.task_id}
    ELSE {}

\* the task ids verdicts or raw outputs are stored for in shared state
StoredTaskIds ==
    {id \in TaskIds : HasKey(shared, "validation_" \o id)
                      \/ HasKey(shared, "raw_output_" \o id)
                      \/ HasKey(shared, "failure_reasons_" \o id)}

\* C11: parse_generated_task hands on the task id pinned in shared state
\* whenever there is one, whatever id the agent's response text implies; so
\* in a run every message, every stored verdict and every stored raw output
\* is for the task id the run was started with, in every attempt, and the
\* pinned id never changes.
PinnedArtifactId ==
    /\ [][ (Ran("parse_generated_task") /\ HasKey(shared, "task_id")) =>
             /\ status' = "running"
             /\ msg'.type = "TaskInfo"
             /\ msg'.task_id = shared["task_id"]
             /\ shared'["task_id"] = shared["task_id"] ]_vars
    /\ [](Started =>
             /\ MessageTaskIds \subseteq {initial_state.task_id}
             /\ StoredTaskIds \subseteq {initial_state.task_id}
             /\ HasKey(shared, "task_id") =>
                    shared["task_id"] = initial_state.task_id)
    /\ [][ HasKey(shared, "task_id") =>
             /\ HasKey(shared', "task_id")
             /\ shared'["task_id"] = shared["task_id"] ]_vars

\* the second attempt of a run pinned to 001_alpha is being tested after an
\* agent answered with, and wrote, 002_beta
PinnedArtifactWitness ==
    /\ Started
    /\ initial_state.task_id = "001_alpha"
    /\ "002_beta" \in game_root
    /\ calls["fixer_agent"] = 1
    /\ calls["parse_generated_task"] = 2
    /\ Pending("run_pytest")
    /\ msg.task_id = "001_alpha"

----------------------------------------------------------------------------
(* C12: the verdicts and raw output held in shared state *)

\* C12: after every execution of the validator, of the tests and of the
\* negative verification that yields a verdict, shared state holds, for the
\* task id, that verdict's data: the validation result just produced, and the
\* raw output of the test result just produced; nothing older is left there.
LatestVerdictInRunState ==
    [][ /\ (Ran("run_validation") /\ status' = "running") =>
             shared'["validation_" \o msg.task_id] = msg'.validation
        /\ (Ran("run_pytest") /\ status' = "running") =>
             shared'["raw_output_" \o msg.task_id] = msg'.raw_output
        /\ (Ran("run_pytest_skip_answer") /\ status' = "running") =>
             shared'["raw_output_" \o msg.test.task_id] = msg'.test.raw_output
      ]_vars

----------------------------------------------------------------------------
(* C13: the request fix_task builds *)

\* C13: the prompt fix_task sends for a combined result contains the reason
\* of every invalid verdict of that combined result and the raw output of
\* that combined result's test verdict.
FixRequestCarriesFailure ==
    [][ (Ran("fix_task") /\ status' = "running") =>
            /\ msg'.type = "AgentExecutorRequest"
            /\ ~msg.validation.is_valid =>
                   Contains(msg'.text, msg.validation.reason)
            /\ ~msg.test.is_valid =>
                   /\ Contains(msg'.text, msg.test.reason)
                   /\ Contains(msg'.text, msg.test.raw_output) ]_vars

----------------------------------------------------------------------------
(* C14: quarantine durability *)

\* the lines the sequence report has
Lines(report) == {report[i] : i \in DOMAIN report}

\* the report is the failure report of the combined result c
ReportOf(report, c) ==
    /\ "Task ID: " \o c.test.task_id \in Lines(report)
    /\ "Total Retry Attempts: " \o ToString(c.retry_count) \in Lines(report)
    /\ c.retry_count = c.max_retries
    /\ HasKey(shared, "failure_reasons_" \o c.test.task_id)
    /\ \A r \in Range(shared["failure_reasons_" \o c.test.task_id]) :
          "  - " \o r \in Lines(report)
    /\ "  Reason: " \o c.validation.reason \in Lines(report)
    /\ "  Reason: " \o c.test.reason \in Lines(report)

\* C14: whenever a run started with retry_count = 0 has ended in
\* Complete(failure), the unsuccessful area holds a failure report with the
\* task id, the line "Total Retry Attempts: n" where n is the retry count and
\* equals max_retries, the final failure reasons and the reason of both
\* verdicts.
QuarantineDurability ==
    (StartedAtZero /\ CompleteFailure) =>
        \E n \in Quarantined : ReportOf(unsuccessful[n].report, msg)

----------------------------------------------------------------------------
(* C15: ParseFailure *)

\* the text names none of the task ids
NamesNoTaskId(text) == \A id \in TaskIds : ~Contains(text, id)

\* the executors of the Validate, Test, Repair and Quarantine stages
DownstreamOfParse ==
    {"run_validation", "run_pytest", "make_decision", "keep_task", "remove_task",
     "run_pytest_skip_answer", "check_loop", "fix_task", "fixer_agent",
     "complete_workflow"}

\* C15: when shared state has no task_id and the response text names none,
\* parse_generated_task raises: the run stops at once with the ValueError,
\* no message is sent, no retry is counted; no executor of the validation,
\* test, repair or quarantine stages has run or runs afterwards; and a
\* response that does name an id, or a pinned id, never makes it raise.
ParseFailureAborts ==
    /\ [][ Ran("parse_generated_task") =>
            IF ~HasKey(shared, "task_id") /\ NamesNoTaskId(msg.text)
            THEN /\ status' = "failed"
                 /\ error' = "ValueError"
                 /\ active' = {}
                 /\ msg' = msg
                 /\ shared'["retry_count"] = DefaultRetryCount
                 /\ outputs' = outputs
                 /\ \A id \in DownstreamOfParse : calls'[id] = 0
            ELSE /\ status' = "running"
                 /\ active' = {"run_validation"} ]_vars
    /\ [][ status # "failed" ]_vars

\* the generator answered without naming an id, nothing was pinned, and the
\* run stopped in parse_generated_task
ParseFailureWitness ==
    /\ status = "failed"
    /\ error = "ValueError"
    /\ calls["parse_generated_task"] = 1
    /\ ~HasKey(shared, "task_id")
    /\ msg.type = "AgentExecutorResponse"
    /\ NamesNoTaskId(msg.text)
    /\ \A id \in DownstreamOfParse : calls[id] = 0

----------------------------------------------------------------------------
(* C16: MissingMetadata *)

\* C16: when fix_task receives a combined result whose target_topic or
\* concept_description is empty it raises: the run stops with the ValueError,
\* no request is sent (the fixer agent is not invoked), shared state and the
\* outputs are left as they were, and no step follows; with both present it
\* sends its request to the fixer agent.
MissingMetadataAborts ==
    /\ [][ Ran("fix_task") =>
            IF msg.target_topic = "" \/ msg.concept_description = ""
            THEN /\ status' = "failed"
                 /\ error' = "ValueError"
                 /\ active' = {}
                 /\ msg' = msg
                 /\ shared' = shared
                 /\ outputs' = outputs
                 /\ game_root' = game_root
                 /\ calls'["fixer_agent"] = 0
            ELSE /\ status' = "running"
                 /\ active' = {"fixer_agent"}
                 /\ msg'.type = "AgentExecutorRequest" ]_vars
    /\ []((status = "failed" /\ error = "ValueError" /\ IsCombined) =>
             /\ calls["fix_task"] = 1
             /\ calls["fixer_agent"] = 0
             /\ calls["parse_generated_task"] = 1
             /\ calls["complete_workflow"] = 0)
    /\ [][ status # "failed" ]_vars

\* a first attempt failed with budget left and an empty description: the run
\* stopped in fix_task
MissingMetadataWitness ==
    /\ status = "failed"
    /\ error = "ValueError"
    /\ IsCombined
    /\ msg.target_topic # ""
    /\ msg.concept_description = ""
    /\ msg.retry_count < msg.max_retries
    /\ calls["fix_task"] = 1
    /\ calls["fixer_agent"] = 0

----------------------------------------------------------------------------
(* C17: infrastructure failure of an adapter *)

\* C17: an execution of the validator or of the test runner never stops the
\* run: when the adapter raises, the attempt is recorded as failed, one retry
\* is counted and the run goes on to the budget check.
AdapterFailureIsFailedAttempt ==
    [][ (Ran("run_validation") \/ Ran("run_pytest")) =>
            /\ status' = "running"
            /\ error' = "" ]_vars

----------------------------------------------------------------------------
(* C18: QuarantineIOFailure *)

\* C18: complete_workflow always ends the run with its terminal output, also
\* when moving the task directory or writing the failure report fails: the
\* run is completed, not stopped by the exception, and exactly one terminal
\* output has been emitted.
QuarantineFailureStillCompletes ==
    [][ Ran("complete_workflow") =>
            /\ status' = "completed"
            /\ Cardinality(TerminalOutputs') = 1 ]_vars

----------------------------------------------------------------------------
(* C19: the terminal message *)

\* C19: a run started by the runner that has completed has emitted exactly
\* one terminal output; for a kept task it is the success message and names
\* the task id; otherwise it is the failure message and carries the task id
\* (which also names the directory in the unsuccessful area) and the retry
\* count.
ExactlyOneTerminalMessage ==
    (Started /\ status = "completed") =>
        /\ Cardinality(TerminalOutputs) = 1
        /\ \A i \in TerminalOutputs :
              /\ Contains(outputs[i], msg.test.task_id)
              /\ IF should_keep(msg)
                 THEN Contains(outputs[i], "successfully generated")
                 ELSE /\ Contains(outputs[i], "Failed to generate")
                      /\ Contains(outputs[i], ToString(msg.retry_count))

----------------------------------------------------------------------------
(* C20: immediate success *)

\* the executors in the order a first attempt that passes runs them
SuccessPath ==
    <<"initialize_retry", "generator_agent", "parse_generated_task",
      "run_validation", "run_pytest", "make_decision", "keep_task",
      "run_pytest_skip_answer", "complete_workflow">>

\* the first k executors of SuccessPath have run once, in that order, and no
\* other executor has run
OnSuccessPath(k) ==
    /\ \A i \in DOMAIN SuccessPath : calls[SuccessPath[i]] = IF i <= k THEN 1 ELSE 0
    /\ \A id \in ExecutorIds \ Range(SuccessPath) : calls[id] = 0
    /\ status = "running" => (k < Len(SuccessPath) /\ active = {SuccessPath[k + 1]})
    /\ status = "completed" => k = Len(SuccessPath)

\* C20: in a run started with retry_count = 0, as long as the first attempt
\* has not been decided or verified to have failed, the executors run in the order initialize_retry,
\* generator_agent, parse_generated_task, run_validation, run_pytest,
\* make_decision, keep_task, run_pytest_skip_answer, complete_workflow, each
\* once; the retry count is 0 in shared state and in every combined result;
\* remove_task, check_loop, fix_task and the fixer agent do not run and
\* nothing is moved to the unsuccessful area; and once the negative
\* verification of the first attempt has seen the check step fail, the run
\* goes to complete_workflow and ends in Complete(success).
ImmediateSuccess ==
    /\ ( /\ StartedAtZero
         /\ status \in {"running", "completed"}
         /\ calls["remove_task"] = 0
         /\ calls["check_loop"] = 0
         /\ active \cap {"remove_task", "check_loop"} = {} ) =>
            /\ \E k \in 0..Len(SuccessPath) : OnSuccessPath(k)
            /\ HasKey(shared, "retry_count") => shared["retry_count"] = 0
            /\ IsCombined => msg.retry_count = 0
            /\ Quarantined = {}
            /\ status = "completed" => CompleteSuccess
    /\ ( /\ StartedAtZero
         /\ status \in {"running", "completed"}
         /\ calls["parse_generated_task"] = 1
         /\ calls["run_pytest_skip_answer"] = 1
         /\ CheckStepFailed(test_result_txt) ) =>
            /\ OnSuccessPath(8) \/ OnSuccessPath(9)
            /\ shared["retry_count"] = 0

\* the first attempt passed validation, tests and negative verification: the
\* run is complete, every executor of the success path ran once
ImmediateSuccessWitness ==
    /\ StartedAtZero
    /\ CompleteSuccess
    /\ OnSuccessPath(9)
    /\ shared["retry_count"] = 0
    /\ CheckStepFailed(test_result_txt)

----------------------------------------------------------------------------
(* C21: repair, then success *)

\* C21: a run started with retry_count = 0 that ends in Complete(success)
\* after k repairs has recorded exactly k failed attempts, each followed by
\* one budget check and one repair (fix_task and the fixer agent), has made
\* k + 1 attempts, has k < max_retries, and carries retry_count = k in the
\* final combined result and in shared state.
RepairThenSuccess ==
    (StartedAtZero /\ CompleteSuccess) =>
        LET k == calls["fix_task"]
        IN /\ msg.retry_count = k
           /\ shared["retry_count"] = k
           /\ k < msg.max_retries
           /\ FailedAttempts = k
           /\ calls["check_loop"] = k
           /\ calls["fixer_agent"] = k
           /\ calls["parse_generated_task"] = k + 1
           /\ calls["make_decision"] = k + 1
           /\ calls["complete_workflow"] = 1

\* the first attempt failed its tests, was repaired, and the second attempt
\* succeeded: the final combined result has retry_count 1
RepairThenSuccessWitness ==
    /\ StartedAtZero
    /\ CompleteSuccess
    /\ calls["remove_task"] = 1
    /\ calls["fix_task"] = 1
    /\ calls["run_pytest"] = 2
    /\ msg.retry_count = 1
    /\ msg.max_retries > 1

----------------------------------------------------------------------------
(* C22: what the negative verification accepts *)

\* pytest marks a skipped file with s after its name
SolutionStepSkipped(raw_output) == Contains(raw_output, "test_03_answer.py s")

\* C22: the negative verification passes its combined result on to
\* complete_workflow as kept only when, in its run with the answer
\* suppressed, the answer step was skipped and the check step failed; with
\* any other output it sends a failed test verdict to the budget check.
NegativeVerificationAccepts ==
    [][ (Ran("run_pytest_skip_answer") /\ status' = "running") =>
            IF SolutionStepSkipped(test_result_txt') /\ CheckStepFailed(test_result_txt')
            THEN /\ active' = {"complete_workflow"}
                 /\ msg' = msg
            ELSE /\ active' = {"check_loop"}
                 /\ ~msg'.test.is_valid ]_vars

----------------------------------------------------------------------------
(* C23: the validation result make_decision uses *)

\* C23: the combined result make_decision sends carries the validation result
\* stored in shared state for the task id of the test result when there is
\* one; only when there is none it carries a passing validation result for
\* that task id whose reason says that the pass is assumed.
DecisionUsesStoredValidation ==
    [][ Ran("make_decision") =>
            /\ IsCombined'
            /\ msg'.test = msg
            /\ IF HasKey(shared, "validation_" \o msg.task_id)
               THEN msg'.validation = shared["validation_" \o msg.task_id]
               ELSE /\ msg'.validation.is_valid
                    /\ Contains(msg'.validation.reason, "assumed")
                    /\ msg'.validation.task_id = msg.task_id
                    /\ msg'.validation.task_directory = msg.task_directory ]_vars

\* make_decision found no validation result for the task and assumed a pass
AssumedValidationWitness ==
    /\ calls["make_decision"] = 1
    /\ calls["run_validation"] = 0
    /\ IsCombined
    /\ ~HasKey(shared, "validation_" \o msg.test.task_id)
    /\ msg.validation.reason = "Validation passed (assumed)"
    /\ ~msg.test.is_valid
    /\ active = {"remove_task"}

----------------------------------------------------------------------------
(* C24: make_decision leaves shared state alone *)

\* C24: make_decision changes no key of shared state and adds none, also
\* when it falls back on a default for a key that is missing; it yields no
\* output and touches no file.
DecisionKeepsSharedState ==
    [][ Ran("make_decision") =>
            /\ shared' = shared
            /\ outputs' = outputs
            /\ game_root' = game_root
            /\ unsuccessful' = unsuccessful
            /\ environ' = environ ]_vars

\* make_decision used its defaults for the counters and stored none of them
DecisionDefaultsWitness ==
    /\ calls["make_decision"] = 1
    /\ IsCombined
    /\ active \subseteq {"keep_task", "remove_task"}
    /\ status = "running"
    /\ ~HasKey(shared, "retry_count")
    /\ ~HasKey(shared, "max_retries")
    /\ msg.retry_count = DefaultRetryCount
    /\ msg.max_retries = DefaultMaxRetries

----------------------------------------------------------------------------
(* C25: concurrent runs *)

\* C25: of two runs in one process, each with its own shared state and task,
\* no normal-mode test execution of a run inherits SKIP_ANSWER_TESTS=True
\* from the negative verification of the other, and the verdict of a
\* normal-mode execution depends on the run's own artifact alone: it is
\* valid unless the artifact's check fails with the answer deployed.
ConcurrentRunsIndependent ==
    \A r \in Runs :
        workflows[r].pc = "make_decision" =>
            /\ workflows[r].inherited = "<unset>"
            /\ workflows[r].test_is_valid = (workflows[r].artifact # "broken")

----------------------------------------------------------------------------
(* C26: one stage at a time *)

\* C26: at most one executor of a run has a message pending at any time, a
\* running run has exactly one, and each of the three selection functions
\* picks exactly one of its two targets for the combined result in flight.
OneStageAtATime ==
    /\ Cardinality(active) <= 1
    /\ status = "running" => Cardinality(active) = 1
    /\ IsCombined =>
          /\ Len(select_action(msg, <<"keep_task", "remove_task">>)) = 1
          /\ Len(select_skip_answer_action(msg, <<"check_loop", "complete_workflow">>)) = 1
          /\ Len(select_loop_action(msg, <<"fix_task", "complete_workflow">>)) = 1

\* a run that has been routed by all three selection functions, a second
\* attempt included, and has one executor pending
OneStageWitness ==
    /\ calls["make_decision"] >= 2
    /\ calls["run_pytest_skip_answer"] >= 1
    /\ calls["check_loop"] >= 1
    /\ status = "running"
    /\ Cardinality(active) = 1

----------------------------------------------------------------------------
(* C27: the seeded metadata *)

SeededKeys ==
    {"task_id", "target_topic", "concept_description", "difficulty",
     "objective", "max_retries"}

\* C27: once initialize_retry has stored an InitialWorkflowState, the task
\* id, topic, description, difficulty, objective and max_retries in shared
\* state keep that value in every step of the run, the steps of fix_task and
\* of the attempts after it included.
SeededMetadataKept ==
    [][ \A k \in SeededKeys :
           (calls["initialize_retry"] >= 1 /\ HasKey(shared, k)) =>
               /\ HasKey(shared', k)
               /\ shared'[k] = shared[k]
               /\ initial_state.type = "InitialWorkflowState" =>
                     shared[k] = initial_state[k] ]_vars

\* a repaired run in its second attempt, with a different retry_count and the
\* metadata its initial state seeded
SeededMetadataWitness ==
    /\ initial_state.type = "InitialWorkflowState"
    /\ calls["fix_task"] >= 1
    /\ calls["make_decision"] >= 2
    /\ status = "running"
    /\ \A k \in SeededKeys : HasKey(shared, k) /\ shared[k] = initial_state[k]
    /\ shared["retry_count"] # initial_state.retry_count

----------------------------------------------------------------------------
(* C28: a failed attempt with budget left keeps the artifact *)

\* C28: the step that records a failed attempt (remove_task, or
\* run_pytest_skip_answer sending a failed verdict) with retries left, the
\* budget check that follows it and fix_task leave the game folder and the
\* unsuccessful area as they are, and the budget check hands the task to
\* fix_task; the unsuccessful area changes only in complete_workflow, for a
\* result whose retry_count has reached max_retries.
ArtifactStaysForRepair ==
    [][ /\ ( /\ Ran("remove_task") \/ Ran("run_pytest_skip_answer")
             /\ status' = "running"
             /\ IsCombined'
             /\ RetryCondition(msg') ) =>
               /\ game_root' = game_root
               /\ unsuccessful' = unsuccessful
               /\ active' = {"check_loop"}
        /\ (Ran("check_loop") /\ RetryCondition(msg)) =>
               /\ game_root' = game_root
               /\ unsuccessful' = unsuccessful
               /\ active' = {"fix_task"}
        /\ Ran("fix_task") =>
               /\ game_root' = game_root
               /\ unsuccessful' = unsuccessful
        /\ unsuccessful' # unsuccessful =>
               /\ Ran("complete_workflow")
               /\ msg.retry_count >= msg.max_retries ]_vars

\* a failed attempt was recorded with retries left and the task directory is
\* still in the game folder
ArtifactStaysWitness ==
    /\ status = "running"
    /\ active = {"check_loop"}
    /\ IsCombined
    /\ RetryCondition(msg)
    /\ calls["remove_task"] >= 1
    /\ msg.test.task_id \in game_root

----------------------------------------------------------------------------
(* C29: quarantine moves, it does not delete or overwrite *)

\* C29: a complete_workflow step that takes the task directory out of the
\* game folder puts it into the unsuccessful area as a new entry, named by
\* the task id or, when that name is taken, by the task id with the
\* timestamp suffix, and leaves every entry the area already had as it was.
QuarantineKeepsEntries ==
    [][ (Ran("complete_workflow") /\ game_root' # game_root) =>
            LET task_id == msg.test.task_id
            IN /\ game_root' = game_root \ {task_id}
               /\ \E n \in (DOMAIN unsuccessful') \ (DOMAIN unsuccessful) :
                     /\ "moved" \in unsuccessful'[n].holds
                     /\ n = IF task_id \in DOMAIN unsuccessful
                            THEN task_id \o "_" \o Timestamp ELSE task_id
               /\ \A n \in DOMAIN unsuccessful :
                     unsuccessful'[n] = unsuccessful[n] ]_vars

----------------------------------------------------------------------------
(* C30: the order of the stages within an attempt *)

\* the attempts begun and the attempts decided
Attempts == calls["parse_generated_task"]

Decided == calls["make_decision"]

\* C30: in every attempt parse_generated_task, run_validation, run_pytest and
\* make_decision run in this order, once each: each has run as often as the
\* one before it or once less, and then it is the one pending or the run has
\* stopped.  keep_task and remove_task together have run once per decided
\* attempt or are pending; run_pytest_skip_answer follows keep_task and
\* check_loop follows remove_task or a failed run_pytest_skip_answer.  Each
\* attempt after the first follows one budget check and one fix_task, and
\* while an attempt is not decided nothing of it has failed, been kept or
\* been completed.
OrderWithinAttempt ==
    LET Follows(a, b) ==
            /\ calls[b] \in {calls[a], calls[a] - 1}
            /\ calls[b] < calls[a] => (active = {b} \/ status = "failed")
    IN /\ Follows("parse_generated_task", "run_validation")
       /\ Follows("run_validation", "run_pytest")
       /\ Follows("run_pytest", "make_decision")
       /\ calls["keep_task"] + calls["remove_task"] \in {Decided, Decided - 1}
       /\ calls["keep_task"] + calls["remove_task"] < Decided =>
             (active \in {{"keep_task"}, {"remove_task"}} \/ status = "failed")
       /\ Follows("keep_task", "run_pytest_skip_answer")
       /\ calls["check_loop"] <= calls["remove_task"] + calls["run_pytest_skip_answer"]
       /\ calls["remove_task"] + calls["run_pytest_skip_answer"] - calls["keep_task"]
              <= calls["check_loop"] + 1
       /\ (active = {"check_loop"} /\ status = "running") =>
              calls["remove_task"] + calls["run_pytest_skip_answer"]
                  > calls["check_loop"]
       /\ calls["fix_task"] <= calls["check_loop"]
       /\ Follows("fix_task", "fixer_agent")
       /\ calls["complete_workflow"] <= 1
       /\ calls["complete_workflow"] = 1 =>
             calls["run_pytest_skip_answer"] + calls["check_loop"] >= 1
       /\ Attempts >= 1 =>
             /\ calls["fixer_agent"] \in {Attempts - 1, Attempts}
             /\ calls["fixer_agent"] = Attempts => active = {"parse_generated_task"}
       /\ Attempts > Decided =>
             /\ calls["keep_task"] + calls["remove_task"] = Decided
             /\ calls["run_pytest_skip_answer"] = calls["keep_task"]
             /\ calls["check_loop"] = Attempts - 1
             /\ calls["fix_task"] = Attempts - 1
             /\ calls["complete_workflow"] = 0

\* the attempt after a repair has been decided and has failed as well
OrderWitness ==
    /\ Attempts = 2
    /\ calls["run_validation"] = 2
    /\ calls["run_pytest"] = 2
    /\ Decided = 2
    /\ calls["fix_task"] = 1
    /\ calls["remove_task"] = 2
    /\ active = {"check_loop"}
    /\ status = "running"

----------------------------------------------------------------------------
(* C31: the reason of a failed validation *)

\* the first min(k, 3) causes, separated by "; "
ListedCauses(k) ==
    CASE k = 1 -> Cause(1)
      [] k = 2 -> Cause(1) \o "; " \o Cause(2)
      [] OTHER -> Cause(1) \o "; " \o Cause(2) \o "; " \o Cause(3)

\* the count of the causes that are not listed
RemainingCauses(k) ==
    IF k > 3 THEN " (and " \o ToString(k - 3) \o " more errors)" ELSE ""

\* the validation result run_validation has just stored and sent
StoredVerdict == shared'["validation_" \o msg.task_id]

\* C31: when the validator finds the task invalid with k specific causes,
\* run_validation does not raise and stores and sends a result with is_valid
\* false whose reason is the first min(k, 3) causes followed, for k > 3, by
\* the count of the other k - 3; for k = 0 (the directory is missing) the
\* reason is the generic one.
ValidationReasonCap ==
    [][ (Ran("run_validation") /\ error' # "OSError") =>
            LET k == task_files[msg.task_id].failing
                found_invalid == msg.task_id \notin game_root \/ k > 0
            IN /\ status' = "running"
               /\ error' = ""
               /\ HasKey(shared', "validation_" \o msg.task_id)
               /\ msg'.validation = StoredVerdict
               /\ StoredVerdict.task_id = msg.task_id
               /\ StoredVerdict.is_valid = ~found_invalid
               /\ found_invalid =>
                     StoredVerdict.reason =
                        IF msg.task_id \notin game_root
                        THEN "Validation failed - check file structure and syntax"
                        ELSE ListedCauses(k) \o RemainingCauses(k) ]_vars

\* run_validation has stored a verdict for a directory with more than three
\* failing checks: three are listed and the others counted
ValidationReasonWitness ==
    /\ calls["run_validation"] >= 1
    /\ active = {"run_pytest"}
    /\ msg.task_id \in game_root
    /\ task_files[msg.task_id].failing > 3
    /\ ~task_files[msg.task_id].modified
    /\ msg.validation = shared["validation_" \o msg.task_id]
    /\ ~msg.validation.is_valid
    /\ Contains(msg.validation.reason, Cause(3) \o " (and ")
    /\ ~Contains(msg.validation.reason, Cause(4))

----------------------------------------------------------------------------
(* C32: the test verdict *)

\* pytest's exit codes: 0 all passed, 1 some failed, 2 interrupted,
\* 3 internal error, 4 usage error, 5 no tests collected
ExitCodes == 0..5

\* the subprocess runs run_pytest can see
ObservableRuns == NormalRuns \cup {MissingRun}

\* C32: the result run_pytest sends is valid exactly when pytest exited with
\* code 0; for every exit code, a run that collected no tests (code 5) and a
\* run that failed in any other way are both invalid and have different
\* reasons.
TestVerdictClassification ==
    [][ /\ \A rc \in ExitCodes :
              LET result == run_pytest_command([returncode |-> rc, output |-> "out"])
                  none == run_pytest_command([returncode |-> 5, output |-> "out"])
              IN /\ result.is_valid <=> rc = 0
                 /\ ~none.is_valid
                 /\ rc \notin {0, 5} => result.reason # none.reason
        /\ (Ran("run_pytest") /\ status' = "running") =>
              \E run \in ObservableRuns :
                 /\ msg'.raw_output = run.output
                 /\ msg'.is_valid <=> run.returncode = 0
                 /\ run.returncode = 5 => msg'.reason = "No tests collected"
                 /\ run.returncode \notin {0, 5} =>
                       /\ msg'.reason # "No tests collected"
                       /\ Contains(msg'.reason, "Tests failed") ]_vars

\* run_pytest has sent the result of a run that collected no tests
NoTestsWitness ==
    /\ calls["run_pytest"] >= 1
    /\ active = {"make_decision"}
    /\ msg.raw_output = OutNoTests
    /\ msg.reason = "No tests collected"
    /\ ~msg.is_valid

----------------------------------------------------------------------------
(* C33: validation is idempotent *)

----------------------------------------------------------------------------
(* C34: the concept is saved only for a run that succeeded *)

\* the run ended with the success output for a kept task
EndedInSuccess ==
    /\ IsCombined
    /\ KeepCondition(msg)
    /\ LastOutput = SuccessOutput(msg.test.task_id)

\* C34: the idea memory holds the concept of the run exactly when run_workflow
\* has returned from a run that ended in Complete(success); it holds nothing
\* while the run goes on, after a run that ended in Complete(failure) and
\* after a run that an exception stopped.
ConceptSavedIffSuccess ==
    /\ status # "returned" => generated_ideas = <<>>
    /\ status = "returned" =>
          IF EndedInSuccess
          THEN /\ DOMAIN generated_ideas = {ConceptTaskId(initial_state.target_topic)}
               /\ concept_exists(generated_ideas, initial_state.target_topic)
          ELSE generated_ideas = <<>>

----------------------------------------------------------------------------
(* C35: SKIP_ANSWER_TESTS is restored *)

\* C35: whenever no run of the process is inside run_pytest_skip_answer,
\* SKIP_ANSWER_TESTS is absent from the environment, as it was before the
\* first of them entered it.
SkipAnswerTestsRestored ==
    (\A r \in Runs : workflows[r].pc # "run_pytest_skip_answer_await") =>
        environ = "<unset>"

----------------------------------------------------------------------------
(* C36: what follows the "has been kept" output *)

KeptOutput(task_id) ==
    "Task " \o task_id \o " passed all checks and has been kept."

\* the run has announced that a task was kept
KeptAnnounced ==
    \E i \in DOMAIN outputs : Contains(outputs[i], "has been kept")

----------------------------------------------------------------------------
(* C37: the retry count stays within the budget *)

\* the combined result of a failed attempt is about to be quarantined
EnteringQuarantine ==
    /\ Pending("complete_workflow")
    /\ IsCombined
    /\ ~should_keep(msg)

\* C37: in every reachable state of a run started with retry_count = 0 the
\* retry count, in shared state and in every combined result, is at least 0
\* and at most max_retries, the budget every combined result carries is the
\* one the run was started with, and complete_workflow receives a failed
\* result only with retry_count equal to max_retries, which is also the count
\* its failure output shows.
RetryCountWithinBudget ==
    StartedAtZero =>
        LET N == initial_state.max_retries
        IN /\ HasKey(shared, "retry_count") =>
                 /\ shared["retry_count"] >= 0
                 /\ shared["retry_count"] <= N
           /\ HasKey(shared, "max_retries") => shared["max_retries"] = N
           /\ (IsCombined /\ status \in {"running", "completed"}) =>
                 /\ msg.max_retries = N
                 /\ 0 <= msg.retry_count
                 /\ msg.retry_count <= msg.max_retries
                 /\ msg.retry_count <= shared["retry_count"]
           /\ EnteringQuarantine =>
                 /\ msg.retry_count = msg.max_retries
                 /\ shared["retry_count"] = msg.max_retries
           /\ (status = "completed" /\ ~should_keep(msg)) =>
                 /\ msg.retry_count = N
                 /\ LastOutput = FailureOutput(N)

\* a run with a budget of 2 enters quarantine after one failed test run and
\* one failed negative verification
QuarantineAtBudgetWitness ==
    /\ StartedAtZero
    /\ initial_state.max_retries = 2
    /\ EnteringQuarantine
    /\ msg.retry_count = 2
    /\ calls["remove_task"] = 1
    /\ calls["run_pytest_skip_answer"] = 1

----------------------------------------------------------------------------
(* C38: the retry loop is bounded and terminates *)

\* the run under weak fairness: a step that stays possible is taken
SpecFair == Init /\ [][Next]_vars /\ WF_vars(Next)

\* the run is over
Terminated == status \in {"completed", "failed"}

\* C38: in a run started with retry_count = 0 and max_retries = N, whatever
\* the agents, the validator and the test runs return, the generator is
\* invoked exactly once, the fixer at most N - 1 times, run_pytest at most N
\* times, every other stage of an attempt at most N times and
\* complete_workflow at most once; so the run comes to an end.
BoundedInvocations ==
    /\ [](StartedAtZero =>
            LET N == initial_state.max_retries
            IN /\ calls["generator_agent"] =
                     (IF calls["initialize_retry"] = 0
                         \/ Pending("generator_agent") THEN 0 ELSE 1)
               /\ calls["fixer_agent"] <= N - 1
               /\ calls["fix_task"] <= N - 1
               /\ calls["run_pytest"] <= N
               /\ \A id \in {"parse_generated_task", "run_validation",
                             "make_decision", "check_loop"} : calls[id] <= N
               /\ calls["keep_task"] + calls["remove_task"] <= N
               /\ calls["run_pytest_skip_answer"] <= calls["keep_task"]
               /\ calls["parse_generated_task"] <= 1 + calls["fixer_agent"]
               /\ calls["complete_workflow"] <= 1)
    /\ <>Terminated

\* a run with a budget of 3 came to its end after the generator ran once, the
\* fixer twice and run_pytest three times
BoundedInvocationsWitness ==
    /\ StartedAtZero
    /\ initial_state.max_retries = 3
    /\ Terminated
    /\ calls["generator_agent"] = 1
    /\ calls["fixer_agent"] = 2
    /\ calls["run_pytest"] = 3

----------------------------------------------------------------------------
(* C39: the validation result a decision combines *)

ValidationKey(task_id) == "validation_" \o task_id

\* C39: in a run started with an InitialWorkflowState, run_validation stores
\* the validation result it sends on under the task id of the attempt,
\* run_pytest hands that task id on and leaves the stored result alone, and
\* so every make_decision finds in shared state the validation result of its
\* own attempt: it never assumes a pass and never combines a test result with
\* the validation result of an earlier attempt.
DecisionFindsOwnValidation ==
    /\ [][ Started =>
            /\ (Ran("run_validation") /\ status' = "running") =>
                  /\ msg'.task_id = msg.task_id
                  /\ msg'.validation.task_id = msg.task_id
                  /\ HasKey(shared', ValidationKey(msg.task_id))
                  /\ shared'[ValidationKey(msg.task_id)] = msg'.validation
            /\ (Ran("run_pytest") /\ status' = "running") =>
                  /\ msg'.task_id = msg.task_id
                  /\ HasKey(shared', ValidationKey(msg'.task_id))
                  /\ shared'[ValidationKey(msg'.task_id)] = msg.validation
            /\ Ran("make_decision") =>
                  /\ HasKey(shared, ValidationKey(msg.task_id))
                  /\ msg'.validation = shared[ValidationKey(msg.task_id)]
                  /\ msg'.validation.task_id = msg'.test.task_id
                  /\ ~Contains(msg'.validation.reason, "assumed") ]_vars
    /\ []((Started /\ Pending("make_decision")) =>
            /\ calls["run_validation"] = calls["make_decision"] + 1
            /\ calls["run_pytest"] = calls["run_validation"]
            /\ HasKey(shared, ValidationKey(msg.task_id)))

\* the first attempt was removed for a failed validation; the decision of the
\* second attempt combined its test result with the passing validation result
\* of that attempt
SecondValidationWitness ==
    /\ Started
    /\ calls["make_decision"] = 2
    /\ calls["run_validation"] = 2
    /\ active = {"keep_task"}
    /\ Len(outputs) = 1
    /\ Contains(outputs[1], "Validation failed")
    /\ msg.validation.is_valid
    /\ shared[ValidationKey(msg.test.task_id)] = msg.validation

----------------------------------------------------------------------------
(* C40: the idea memory only grows *)

\* C40 as stated: add_structured_concept never removes or overwrites an entry
\* of the memory: every idea stored before a call is stored after it under
\* the same key with the same data; adding a concept that exists already,
\* compared without regard to case, leaves the memory as it is; and after
\* adding a concept concept_exists is true for it.
StoredConceptsKept ==
    /\ [][ \A key \in DOMAIN generated_ideas :
              /\ key \in DOMAIN generated_ideas'
              /\ generated_ideas'[key] = generated_ideas[key]
              /\ concept_exists(generated_ideas', generated_ideas[key].concept) ]_vars
    /\ [](\A concept_data \in Concepts :
            LET after == add_structured_concept(generated_ideas, concept_data)
            IN /\ concept_exists(after, concept_data.concept)
               /\ concept_exists(generated_ideas, concept_data.concept) =>
                     after = generated_ideas)

====
